---- MODULE Spec2Model ----
(***************************************************************************)
(* Model of the cluster-deployment-automation core:                        *)
(*   - VirBridge (src/virtualBridge.py): the reconciler of libvirt's       *)
(*     network "default" on a host reached through host.Host;              *)
(*   - ClustersConfig (src/clustersConfig.py): the default cascade of the  *)
(*     cluster configuration.                                              *)
(* Texts (commands, XML, lease tables) are TLA+ strings, and the code's    *)
(* `in` tests are substring searches over them.                            *)
(***************************************************************************)
EXTENDS Naturals, Sequences, FiniteSets, TLC

VARIABLES
    hostname,   \* self.hostconn.hostname()
    net,        \* libvirt's network "default" on the host
    leases,     \* names holding an active DHCP lease on the host
    qemuConf,   \* the user/group lines of /etc/libvirt/qemu.conf on the host
    bridgeFile, \* contents of /tmp/vir_bridge.xml on the host
    pc,         \* position of the running VirBridge method ("idle" between calls)
    op,         \* the public method being run, its argument and its outcome
    ret,        \* `ret` of configure / setup_dhcp_entry
    last,       \* what the command issued last returned
    cmds,       \* texts of the commands the current call handed to hostconn
    hosts0,     \* static leases when the current call started
    prev,       \* op of the call before the current one
    fullConfig, \* ClustersConfig.fullConfig
    rawConfig,  \* what safe_load returns for the document at yaml_path
    cpc,        \* position of ClustersConfig.__init__
    cci,        \* turn of the loop over the clusters
    passes,     \* default cascades begun so far
    before,     \* fullConfig when the current cascade began
    callRet,    \* what the method called last on the ClustersConfig left
    todo,       \* expressions of the template not yet evaluated
    rendered,   \* expressions evaluated so far, each with its text
    self_clusters,    \* ClustersConfig._clusters
    lookups,          \* calls of load_all_cluster_info() so far
    all_cluster_info, \* what load_all_cluster_info() returns
    hostnameOut       \* what `hostname` prints on the local host

vars == <<hostname, net, leases, qemuConf, bridgeFile, pc, op, ret, last, cmds,
          hosts0, prev, fullConfig, rawConfig, cpc, cci, passes, before, callRet,
          todo, rendered, self_clusters, lookups, all_cluster_info, hostnameOut>>

netVars == <<hostname, net, leases, qemuConf, bridgeFile, pc, op, ret, last, cmds,
             hosts0, prev>>

tplVars == <<todo, rendered, self_clusters, lookups, all_cluster_info, hostnameOut>>

cfgVars == <<fullConfig, rawConfig, cpc, cci, passes, before, callRet, tplVars>>

-----------------------------------------------------------------------------
(* Texts *)

\* Python's `needle in hay` on str
Contains(hay, needle) ==
    \E i \in 1..(Len(hay) + 1 - Len(needle)) :
        SubSeq(hay, i, i + Len(needle) - 1) = needle

RECURSIVE Join(_, _)
\* concatenation of F(s[1]) .. F(s[n])
Join(F(_), s) == IF s = <<>> THEN "" ELSE F(Head(s)) \o Join(F, Tail(s))

\* cfg.ip is None
None == "None"

-----------------------------------------------------------------------------
(* The host: libvirt's network "default", its lease table, qemu.conf *)

StaleStart == "192.168.122.2"
NewStart == "192.168.122.129"
RangeEnd == "192.168.122.254"
\* a range start that begins like the stale one
NearStart == "192.168.122.20"

\* one <range> element, as net-dumpxml prints it
RangeXml(r) == "      <range start='" \o r.start \o "' end='" \o r.end \o "'/>\n"

\* one static lease, as net-dumpxml prints it
HostEntryXml(h) ==
    "      <host mac='" \o h.mac \o "' name='" \o h.name \o "' ip='" \o h.ip \o "'/>\n"

\* stdout of `virsh net-dumpxml default` for network n
DumpXml(n) ==
    "<network>\n  <name>default</name>\n  <forward mode='nat'/>\n"
    \o "  <bridge name='virbr0' stp='" \o n.stp \o "' delay='0'/>\n"
    \o "  <ip address='" \o n.ip \o "' netmask='" \o n.netmask \o "'>\n"
    \o (IF n.ranges = <<>> /\ n.hosts = <<>> THEN ""
        ELSE "    <dhcp>\n" \o Join(RangeXml, n.ranges) \o Join(HostEntryXml, n.hosts)
             \o "    </dhcp>\n")
    \o "  </ip>\n</network>\n"

\* one row of `virsh net-dhcp-leases default`
LeaseRow(name) ==
    " 2024-01-01 00:00:00   52:54:00:00:00:01   ipv4   192.168.122.50/24   "
    \o name \o "   01:52:54:00:00:00:01\n"

\* stdout of `virsh net-dhcp-leases default`
LeasesText(ls) ==
    " Expiry Time   MAC address   Protocol   IP address   Hostname   Client ID or DUID\n"
    \o "-------------------------------------------------------------------------------\n"
    \o Join(LeaseRow, ls)

Exists(n) == n.persistent \/ n.active

NoNet == [persistent |-> FALSE, active |-> FALSE, stp |-> "on", ip |-> "",
          netmask |-> "", ranges |-> <<>>, hosts |-> <<>>]

Result(code, out, err) == [rc |-> code, out |-> out, err |-> err]

NotFound == "error: Network not found: no network with matching name 'default'"
OtherError == "error: failed to connect to the hypervisor"

\* a command that could not be run: non-zero exit, nothing on stdout
Failed == Result(1, "", OtherError)
Ok == Result(0, "", "")


\* `virsh net-destroy default`
NetDestroy(n) ==
    IF n.active
    THEN [res |-> Ok, net |-> IF n.persistent THEN [n EXCEPT !.active = FALSE] ELSE NoNet]
    ELSE [res |-> Result(1, "", IF Exists(n)
                                THEN "error: Requested operation is not valid: network 'default' is not active"
                                ELSE NotFound),
          net |-> n]

\* `virsh net-undefine default`
NetUndefine(n) ==
    IF n.persistent
    THEN [res |-> Ok, net |-> IF n.active THEN [n EXCEPT !.persistent = FALSE] ELSE NoNet]
    ELSE [res |-> Result(1, "", IF Exists(n)
                                THEN "error: Requested operation is not valid: can't undefine transient network"
                                ELSE NotFound),
          net |-> n]

\* `virsh net-start default`
NetStart(n) ==
    IF n.persistent /\ ~n.active
    THEN [res |-> Ok, net |-> [n EXCEPT !.active = TRUE]]
    ELSE [res |-> Result(1, "", IF Exists(n)
                                THEN "error: Requested operation is not valid: network is already active"
                                ELSE NotFound),
          net |-> n]

\* `virsh net-dumpxml default`
NetDumpXml(n) ==
    IF Exists(n) THEN [res |-> Result(0, DumpXml(n), ""), net |-> n]
    ELSE [res |-> Result(1, "", NotFound), net |-> n]

\* `virsh net-update default ... --live --config` needs a running, persistent network
Updatable(n) == n.persistent /\ n.active

UpdateError == "error: Failed to update network default"

\* `virsh net-update default delete ip-dhcp-range "<range start=.. end=../>"`
RangeDelete(n, start) ==
    LET r == [start |-> start, end |-> RangeEnd]
        keep == SelectSeq(n.ranges, LAMBDA x : x # r)
    IN  IF Updatable(n) /\ keep # n.ranges
        THEN [res |-> Ok, net |-> [n EXCEPT !.ranges = keep]]
        ELSE [res |-> Result(1, "", UpdateError), net |-> n]

\* `virsh net-update default add ip-dhcp-range "<range start=.. end=../>"`
RangeAdd(n, start) ==
    LET r == [start |-> start, end |-> RangeEnd]
    IN  IF Updatable(n) /\ \A i \in 1..Len(n.ranges) : n.ranges[i] # r
        THEN [res |-> Ok, net |-> [n EXCEPT !.ranges = Append(n.ranges, r)]]
        ELSE [res |-> Result(1, "", UpdateError), net |-> n]

\* `virsh net-update default delete ip-dhcp-host "<host name=../>"`
HostDelete(n, name) ==
    LET keep == SelectSeq(n.hosts, LAMBDA h : h.name # name)
    IN  IF Updatable(n) /\ keep # n.hosts
        THEN [res |-> Ok, net |-> [n EXCEPT !.hosts = keep]]
        ELSE [res |-> Result(1, "", UpdateError), net |-> n]

\* `virsh net-update default add ip-dhcp-host "<host mac=.. name=.. ip=../>"`:
\* libvirt refuses an entry that matches an existing one by mac, name or ip
HostAdd(n, e) ==
    IF /\ Updatable(n)
       /\ \A i \in 1..Len(n.hosts) :
            /\ n.hosts[i].name # e.name
            /\ n.hosts[i].mac # e.mac
            /\ n.hosts[i].ip # e.ip
    THEN [res |-> Ok, net |-> [n EXCEPT !.hosts = Append(n.hosts, e)]]
    ELSE [res |-> Result(1, "", UpdateError), net |-> n]

\* what running a command can do: its effect, or a failure that changes nothing
Outcomes(effect, n) == {effect, [res |-> Failed, net |-> n]}

\* a command with no effect on the network (systemctl, ip link)
Plain(n) == [res |-> Ok, net |-> n]

\* one `user`/`group` line of /etc/libvirt/qemu.conf
QemuLine(key, st) ==
    IF st = "commented" THEN "#" \o key \o " = \"root\"\n"
    ELSE IF st = "root" THEN key \o " = \"root\"\n"
    ELSE key \o " = \"qemu\"\n"

\* hostconn.read_file("/etc/libvirt/qemu.conf")
QemuConfText(q) ==
    "# Master configuration file for the QEMU driver.\n"
    \o QemuLine("user", q.user) \o QemuLine("group", q.group)

\* sed -e 's/#\(user\|group\) = ".*"$/\1 = "root"/' on one line
SedLine(st) == IF st = "commented" THEN "root" ELSE st


-----------------------------------------------------------------------------
(* host.Host, logger *)

\* mutant: hostconn.run(cmd), the return code is not read
run(res, next) == next

\* hostconn.run_or_die(cmd): the process exits on a non-zero return code
run_or_die(res, next) == IF res.rc # 0 THEN "fatal" ELSE next

\* logger.error_and_exit(msg): the process exits
error_and_exit == "fatal"

-----------------------------------------------------------------------------
(* VirBridge: the texts it builds *)

CmdEnable == "systemctl enable libvirtd --now"
CmdRestart == "systemctl restart libvirtd"
CmdSed == "sed -e 's/#\\(user\\|group\\) = \".*\"$/\\1 = \"root\"/' -i /etc/libvirt/qemu.conf"
CmdDumpXml == "virsh net-dumpxml default"
CmdLeases == "virsh net-dhcp-leases default"
CmdDestroy == "virsh net-destroy default"
CmdUndefine == "virsh net-undefine default"
CmdLinkDelete == "ip link delete virbr0"
bridge_xml == "/tmp/vir_bridge.xml"
CmdDefine == "virsh net-define " \o bridge_xml
CmdStart == "virsh net-start default"
\* mutant: the interface is set up where it should be set down
CmdLinkDownUp(api_network) == "ip link set " \o api_network \o " up"

CmdLinkDown(api_network) == "ip link set " \o api_network \o " down"
CmdLinkUp(api_network) == "ip link set " \o api_network \o " up"

CmdRangeDelete(old_range) ==
    "virsh net-update default delete ip-dhcp-range \"<range start='" \o old_range
    \o "' end='192.168.122.254'/>\" --live --config"

CmdRangeAdd(new_range) ==
    "virsh net-update default add ip-dhcp-range \"<range start='" \o new_range
    \o "' end='192.168.122.254'/>\" --live --config"

CmdHostDelete(name) ==
    "virsh net-update default delete ip-dhcp-host \"<host name='" \o name
    \o "'/>\" --live --config"

CmdHostAdd(cfg) ==
    "virsh net-update default add ip-dhcp-host \"<host mac='" \o cfg.mac \o "' name='"
    \o cfg.name \o "' ip='" \o cfg.ip \o "'/>\" --live --config"

\* _network_xml(ip, dhcp_range): dhcp_range is <<>> for None, else <<start, end>>
network_xml(ip, dhcp_range) ==
    LET dhcp_part == IF dhcp_range = <<>> THEN ""
                     ELSE "<dhcp>\n<range start='" \o dhcp_range[1] \o "' end='"
                          \o dhcp_range[2] \o "'/>\n</dhcp>"
    IN  "\n<network>\n<name>default</name>\n<forward mode='nat'/>\n"
        \o "<bridge name='virbr0' stp='off' delay='0'/>\n"
        \o "<ip address='" \o ip \o "' netmask='255.255.0.0'>\n"
        \o dhcp_part \o "\n</ip>\n</network>"

\* mutant: the descriptor without DHCP on every host
ContentsNoDhcp(h) == network_xml("192.168.123.250", <<>>)

\* the descriptor configure() writes for a host
Contents(h) ==
    IF h = "localhost" THEN network_xml("192.168.122.1", <<NewStart, RangeEnd>>)
    ELSE network_xml("192.168.123.250", <<>>)

\* mutant: the stp test inverted
NeedsRecreateInverted(out) ==
    Contains(out, "stp='off'") \/ Contains(out, "range start='192.168.122.2'")

\* mutant: the stale range is not looked for
NeedsRecreateStpOnly(out) == ~Contains(out, "stp='off'")

\* the test of configure() that decides the recreation
NeedsRecreate(out) ==
    ~Contains(out, "stp='off'") \/ Contains(out, "range start='192.168.122.2'")

\* mutant: the second search is for the group
RunsAsRootBoth(qemu_conf) ==
    Contains(qemu_conf, "\nuser = \"root\"") /\ Contains(qemu_conf, "\ngroup = \"root\"")

\* the test of _ensure_run_as_root() that skips the patch
RunsAsRoot(qemu_conf) ==
    Contains(qemu_conf, "\nuser = \"root\"") /\ Contains(qemu_conf, "\nuser = \"root\"")

\* mutant: the closing quote of the start address is not part of the test
HasRangeOpen(out, old_range) == Contains(out, "range start='" \o old_range)

\* the test of limit_dhcp_range() that finds the old range
HasRange(out, old_range) == Contains(out, "range start='" \o old_range \o "'")

\* mutant: the name is looked for in double quotes
HasStaticEntryDq(out, name) == Contains(out, "\"" \o name \o "\"")

\* the test of setup_dhcp_entry() that finds a static lease of the name
HasStaticEntry(out, name) == Contains(out, "'" \o name \o "'")

\* the test of setup_dhcp_entry() that finds an active lease of the name
HasActiveLease(out, name) == Contains(out, name \o " ")

\* mutant: the ip attribute is filled from the MAC
HostEntryIpFromMac(cfg) == [mac |-> cfg.mac, name |-> cfg.name, ip |-> cfg.mac]

\* the <host> element setup_dhcp_entry() adds
HostEntry(cfg) == [mac |-> cfg.mac, name |-> cfg.name, ip |-> cfg.ip]

-----------------------------------------------------------------------------
(* libvirt reading a descriptor file *)

\* the <range> elements of a descriptor text
ParseRanges(text) ==
    IF Contains(text, "<range start='" \o NewStart \o "' end='" \o RangeEnd \o "'/>")
    THEN <<[start |-> NewStart, end |-> RangeEnd]>>
    ELSE <<>>

\* `virsh net-define /tmp/vir_bridge.xml`: the persistent definition is replaced
NetDefine(n, text) ==
    IF ~Contains(text, "<network>")
    THEN [res |-> Result(1, "", "error: Failed to define network from /tmp/vir_bridge.xml"),
          net |-> n]
    ELSE [res |-> Ok,
          net |-> [persistent |-> TRUE,
                   active |-> n.active,
                   stp |-> IF Contains(text, "stp='off'") THEN "off" ELSE "on",
                   ip |-> IF Contains(text, "<ip address='192.168.122.1'")
                          THEN "192.168.122.1" ELSE "192.168.123.250",
                   netmask |-> "255.255.0.0",
                   ranges |-> ParseRanges(text),
                   hosts |-> <<>>]]


\* `virsh net-dhcp-leases default`
NetDhcpLeases(n, ls) ==
    IF Exists(n) THEN [res |-> Result(0, LeasesText(ls), ""), net |-> n]
    ELSE [res |-> Result(1, "", NotFound), net |-> n]

-----------------------------------------------------------------------------
(* VirBridge: control *)

\* move to `next`; "fatal" is the exit of the process, "idle" the return of the call
Goto(next) ==
    /\ pc' = next
    /\ op' = IF next = "fatal" THEN [op EXCEPT !.status = "fatal"]
             ELSE IF next = "idle" THEN [op EXCEPT !.status = "ok"]
             ELSE op

\* a public method is called
Begin(name, arg, first) ==
    /\ pc = "idle"
    /\ pc' = first
    /\ prev' = op
    /\ op' = [name |-> name, arg |-> arg, status |-> "running"]
    /\ cmds' = <<>>
    /\ hosts0' = net.hosts
    /\ ret' = Ok
    /\ last' = Ok
    /\ UNCHANGED <<hostname, net, leases, qemuConf, bridgeFile, cfgVars>>

\* hostconn.run(c) / run_or_die(c) was called and returned res
Issue(c, res) == cmds' = Append(cmds, c) /\ last' = res

hostVars == <<hostname, leases, hosts0, prev, cfgVars>>

-----------------------------------------------------------------------------
(* VirBridge.configure *)

ApiNetworks == {"eno1"}

call_configure ==
    \E api_network \in ApiNetworks :
        Begin("configure", [api_network |-> api_network], "cfg_enable")

\* cmd = "systemctl enable libvirtd --now"; run_or_die
configure_enable ==
    /\ pc = "cfg_enable"
    /\ \E o \in Outcomes(Plain(net), net) :
        /\ Issue(CmdEnable, o.res)
        /\ Goto(run_or_die(o.res, "root_probe"))
    /\ UNCHANGED <<net, qemuConf, bridgeFile, ret, hostVars>>

\* _ensure_run_as_root: read qemu.conf, return when it runs as root
ensure_run_as_root ==
    /\ pc = "root_probe"
    /\ Goto(IF RunsAsRoot(QemuConfText(qemuConf)) THEN "cfg_dumpxml" ELSE "root_sed")
    /\ UNCHANGED <<net, qemuConf, bridgeFile, ret, last, cmds, hostVars>>

\* _ensure_run_as_root: the sed patch; its return code is ignored
ensure_run_as_root_sed ==
    /\ pc = "root_sed"
    /\ \E o \in Outcomes(Plain(net), net) :
        /\ qemuConf' = IF o.res.rc = 0 THEN [user |-> SedLine(qemuConf.user),
                                            group |-> SedLine(qemuConf.group)]
                       ELSE qemuConf
        /\ Issue(CmdSed, o.res)
    /\ Goto("root_restart")
    /\ UNCHANGED <<net, bridgeFile, ret, hostVars>>

\* _ensure_run_as_root: self._restart()
ensure_run_as_root_restart ==
    /\ pc = "root_restart"
    /\ \E o \in Outcomes(Plain(net), net) :
        /\ Issue(CmdRestart, o.res)
        /\ Goto(run_or_die(o.res, "cfg_dumpxml"))
    /\ UNCHANGED <<net, qemuConf, bridgeFile, ret, hostVars>>

\* cmd = "virsh net-dumpxml default"; run; decide the recreation
configure_dumpxml ==
    /\ pc = "cfg_dumpxml"
    /\ \E o \in Outcomes(NetDumpXml(net), net) :
        /\ ret' = o.res
        /\ Issue(CmdDumpXml, o.res)
        /\ Goto(IF NeedsRecreate(o.res.out) THEN "cfg_write" ELSE "idle")
    /\ UNCHANGED <<net, qemuConf, bridgeFile, hostVars>>

\* hostconn.write(bridge_xml, contents); time.sleep(5)
configure_write ==
    /\ pc = "cfg_write"
    /\ bridgeFile' = Contents(hostname)
    /\ Goto("es_destroy")
    /\ UNCHANGED <<net, qemuConf, ret, last, cmds, hostVars>>

-----------------------------------------------------------------------------
(* VirBridge._ensure_started *)

\* net-destroy: return code ignored
ensure_started_destroy ==
    /\ pc = "es_destroy"
    /\ \E o \in Outcomes(NetDestroy(net), net) :
        /\ net' = o.net
        /\ Issue(CmdDestroy, o.res)
        /\ Goto("es_undefine")
    /\ UNCHANGED <<qemuConf, bridgeFile, ret, hostVars>>

\* mutant: every failure of net-undefine is ignored
AfterUndefineIgnore(r) == "es_linkdel"

\* mutant: every failure of net-undefine is fatal
AfterUndefineStrict(r) == IF r.rc # 0 THEN error_and_exit ELSE "es_linkdel"

\* where net-undefine's result leads
AfterUndefine(r) ==
    IF r.rc # 0 /\ ~Contains(r.err, "Network not found") THEN error_and_exit
    ELSE "es_linkdel"

\* net-undefine: fatal unless it worked or the network was not found
ensure_started_undefine ==
    /\ pc = "es_undefine"
    /\ \E o \in Outcomes(NetUndefine(net), net) :
        /\ net' = o.net
        /\ Issue(CmdUndefine, o.res)
        /\ Goto(AfterUndefine(o.res))
    /\ UNCHANGED <<qemuConf, bridgeFile, ret, hostVars>>

\* ip link delete virbr0: return code ignored
ensure_started_link_delete ==
    /\ pc = "es_linkdel"
    /\ \E o \in Outcomes(Plain(net), net) : Issue(CmdLinkDelete, o.res)
    /\ Goto("es_define")
    /\ UNCHANGED <<net, qemuConf, bridgeFile, ret, hostVars>>

\* net-define: run_or_die
ensure_started_define ==
    /\ pc = "es_define"
    /\ \E o \in Outcomes(NetDefine(net, bridgeFile), net) :
        /\ net' = o.net
        /\ Issue(CmdDefine, o.res)
        /\ Goto(run_or_die(o.res, "es_down"))
    /\ UNCHANGED <<qemuConf, bridgeFile, ret, hostVars>>

\* ip link set {api_network} down: return code ignored
ensure_started_link_down ==
    /\ pc = "es_down"
    /\ \E o \in Outcomes(Plain(net), net) : Issue(CmdLinkDown(op.arg.api_network), o.res)
    /\ Goto("es_start")
    /\ UNCHANGED <<net, qemuConf, bridgeFile, ret, hostVars>>

\* net-start: run_or_die
ensure_started_start ==
    /\ pc = "es_start"
    /\ \E o \in Outcomes(NetStart(net), net) :
        /\ net' = o.net
        /\ Issue(CmdStart, o.res)
        /\ Goto(run_or_die(o.res, "es_up"))
    /\ UNCHANGED <<qemuConf, bridgeFile, ret, hostVars>>

\* ip link set {api_network} up: return code ignored; configure goes on with
\* limit_dhcp_range("192.168.122.2", "192.168.122.129")
ensure_started_link_up ==
    /\ pc = "es_up"
    /\ \E o \in Outcomes(Plain(net), net) : Issue(CmdLinkUp(op.arg.api_network), o.res)
    /\ Goto("limit_dumpxml")
    /\ UNCHANGED <<net, qemuConf, bridgeFile, ret, hostVars>>


-----------------------------------------------------------------------------
(* VirBridge.limit_dhcp_range *)

\* the ranges a caller may pass
RangeStarts == {StaleStart, NewStart}

\* old_range and new_range of the running limit_dhcp_range
LimitArgs ==
    IF op.name = "configure" THEN [old_range |-> StaleStart, new_range |-> NewStart]
    ELSE op.arg

\* where limit_dhcp_range returns to: configure goes on with self._restart()
LimitReturn == IF op.name = "configure" THEN "cfg_restart" ELSE "idle"

call_limit_dhcp_range ==
    \E old_range \in RangeStarts, new_range \in RangeStarts :
        Begin("limit_dhcp_range", [old_range |-> old_range, new_range |-> new_range],
              "limit_dumpxml")

\* net-dumpxml; run; act only if the old range is there
limit_dhcp_range_dumpxml ==
    /\ pc = "limit_dumpxml"
    /\ \E o \in Outcomes(NetDumpXml(net), net) :
        /\ Issue(CmdDumpXml, o.res)
        /\ Goto(IF HasRange(o.res.out, LimitArgs.old_range) THEN "limit_delete"
                ELSE LimitReturn)
    /\ UNCHANGED <<net, qemuConf, bridgeFile, ret, hostVars>>

\* delete ip-dhcp-range: return code ignored
limit_dhcp_range_delete ==
    /\ pc = "limit_delete"
    /\ \E o \in Outcomes(RangeDelete(net, LimitArgs.old_range), net) :
        /\ net' = o.net
        /\ Issue(CmdRangeDelete(LimitArgs.old_range), o.res)
    /\ Goto("limit_add")
    /\ UNCHANGED <<qemuConf, bridgeFile, ret, hostVars>>

\* add ip-dhcp-range: return code ignored
limit_dhcp_range_add ==
    /\ pc = "limit_add"
    /\ \E o \in Outcomes(RangeAdd(net, LimitArgs.new_range), net) :
        /\ net' = o.net
        /\ Issue(CmdRangeAdd(LimitArgs.new_range), o.res)
    /\ Goto(LimitReturn)
    /\ UNCHANGED <<qemuConf, bridgeFile, ret, hostVars>>

\* configure: self._restart(); time.sleep(5)
configure_restart ==
    /\ pc = "cfg_restart"
    /\ \E o \in Outcomes(Plain(net), net) :
        /\ Issue(CmdRestart, o.res)
        /\ Goto(run_or_die(o.res, "idle"))
    /\ UNCHANGED <<net, qemuConf, bridgeFile, ret, hostVars>>

-----------------------------------------------------------------------------
(* VirBridge.setup_dhcp_entry *)

Mac1 == "52:54:00:00:00:02"
Mac2 == "52:54:00:00:00:20"
Mac3 == "52:54:00:00:00:99"
Ip1 == "192.168.122.12"
Ip2 == "192.168.122.20"
Ip3 == "192.168.122.99"

\* the NodeConfig objects a caller may pass
NodeConfigs ==
    {[name |-> "worker-2", mac |-> Mac1, ip |-> Ip1],
     [name |-> "worker-20", mac |-> Mac2, ip |-> Ip2],
     [name |-> "worker-2", mac |-> Mac1, ip |-> None]}

\* mutant: the check is for an empty string
AfterIpCheckEmpty(cfg) == IF cfg.ip = "" THEN error_and_exit ELSE "dhcp_dumpxml"

\* where the check of cfg.ip leads
AfterIpCheck(cfg) == IF cfg.ip = None THEN error_and_exit ELSE "dhcp_dumpxml"

\* if cfg.ip is None: logger.error_and_exit
call_setup_dhcp_entry ==
    \E cfg \in NodeConfigs : Begin("setup_dhcp_entry", cfg, "dhcp_check")

setup_dhcp_entry_check ==
    /\ pc = "dhcp_check"
    /\ Goto(AfterIpCheck(op.arg))
    /\ UNCHANGED <<net, qemuConf, bridgeFile, ret, last, cmds, hostVars>>

\* mutant: the static lease of the name is left in place
AfterStaticDumpKeep(r, name) == run_or_die(r, "dhcp_leases")

\* where the static leases read lead
AfterStaticDump(r, name) ==
    run_or_die(r, IF HasStaticEntry(r.out, name) THEN "dhcp_delete" ELSE "dhcp_leases")

\* net-dumpxml; run_or_die; is the name a static lease already?
setup_dhcp_entry_dumpxml ==
    /\ pc = "dhcp_dumpxml"
    /\ \E o \in Outcomes(NetDumpXml(net), net) :
        /\ ret' = o.res
        /\ Issue(CmdDumpXml, o.res)
        /\ Goto(AfterStaticDump(o.res, op.arg.name))
    /\ UNCHANGED <<net, qemuConf, bridgeFile, hostVars>>

\* delete ip-dhcp-host; run_or_die
setup_dhcp_entry_delete ==
    /\ pc = "dhcp_delete"
    /\ \E o \in Outcomes(HostDelete(net, op.arg.name), net) :
        /\ net' = o.net
        /\ Issue(CmdHostDelete(op.arg.name), o.res)
        /\ Goto(run_or_die(o.res, "dhcp_leases"))
    /\ UNCHANGED <<qemuConf, bridgeFile, ret, hostVars>>

\* mutant: the conflict is logged and the call goes on
AfterLeasesNoExit(r, name) == "dhcp_add"

\* where the active leases read lead: sys.exit(-1) on a lease of the name
AfterLeases(r, name) == IF HasActiveLease(r.out, name) THEN "fatal" ELSE "dhcp_add"

\* net-dhcp-leases; run; is the name an active lease?
setup_dhcp_entry_leases ==
    /\ pc = "dhcp_leases"
    /\ \E o \in Outcomes(NetDhcpLeases(net, leases), net) :
        /\ ret' = o.res
        /\ Issue(CmdLeases, o.res)
        /\ Goto(AfterLeases(o.res, op.arg.name))
    /\ UNCHANGED <<net, qemuConf, bridgeFile, hostVars>>

\* add ip-dhcp-host; run_or_die
setup_dhcp_entry_add ==
    /\ pc = "dhcp_add"
    /\ \E o \in Outcomes(HostAdd(net, HostEntry(op.arg)), net) :
        /\ net' = o.net
        /\ Issue(CmdHostAdd(op.arg), o.res)
        /\ Goto(run_or_die(o.res, "idle"))
    /\ UNCHANGED <<qemuConf, bridgeFile, ret, hostVars>>


-----------------------------------------------------------------------------
(* The states a host can be in when VirBridge is first used *)

MaxTable == 1

\* definitions of "default" found on hosts: libvirt's own, the stale range with
\* stp off, and the two that configure() writes
NetConfigs ==
    {[stp |-> "on", ip |-> "192.168.122.1", netmask |-> "255.255.255.0",
      ranges |-> <<[start |-> StaleStart, end |-> RangeEnd]>>],
     [stp |-> "off", ip |-> "192.168.122.1", netmask |-> "255.255.255.0",
      ranges |-> <<[start |-> StaleStart, end |-> RangeEnd]>>],
     [stp |-> "off", ip |-> "192.168.122.1", netmask |-> "255.255.0.0",
      ranges |-> <<[start |-> NewStart, end |-> RangeEnd]>>],
     [stp |-> "off", ip |-> "192.168.123.250", netmask |-> "255.255.0.0",
      ranges |-> <<>>],
     [stp |-> "off", ip |-> "192.168.122.1", netmask |-> "255.255.0.0",
      ranges |-> <<[start |-> NearStart, end |-> RangeEnd]>>]}

\* static leases left by earlier runs: right ones, one with a wrong MAC, and one of
\* another machine that holds worker-2's MAC
StaticEntries ==
    {[mac |-> Mac1, name |-> "worker-2", ip |-> Ip1],
     [mac |-> Mac3, name |-> "worker-2", ip |-> Ip1],
     [mac |-> Mac2, name |-> "worker-20", ip |-> Ip2],
     [mac |-> Mac1, name |-> "master-0", ip |-> Ip3]}

\* libvirt keeps names, MACs and IPs of static leases unique
Compatible(t, e) ==
    \A i \in 1..Len(t) : t[i].name # e.name /\ t[i].mac # e.mac /\ t[i].ip # e.ip

RECURSIVE Tables(_)
Tables(k) ==
    IF k = 0 THEN {<<>>}
    ELSE Tables(k - 1)
         \cup {Append(t, e) : <<t, e>> \in
                 {x \in Tables(k - 1) \X StaticEntries : Compatible(x[1], x[2])}}

InitNets ==
    {NoNet} \cup
    {[persistent |-> TRUE, active |-> a, stp |-> c.stp, ip |-> c.ip,
      netmask |-> c.netmask, ranges |-> c.ranges, hosts |-> t] :
        c \in NetConfigs, a \in BOOLEAN, t \in Tables(MaxTable)}

QemuConfs ==
    {[user |-> "commented", group |-> "commented"],
     [user |-> "root", group |-> "commented"],
     [user |-> "root", group |-> "root"],
     [user |-> "qemu", group |-> "qemu"]}

\* active leases: none, one of a node, one of a name that extends a node's name,
\* one of a name that ends with a node's name
LeaseTables == {<<>>, <<"worker-2">>, <<"worker-20">>, <<"bm-worker-2">>}

NoOp == [name |-> "none", arg |-> <<>>, status |-> "ok"]

\* no VirBridge method has been called yet
Fresh ==
    /\ bridgeFile = ""
    /\ pc = "idle"
    /\ op = NoOp
    /\ prev = NoOp
    /\ ret = Ok
    /\ last = Ok
    /\ cmds = <<>>
    /\ hosts0 = <<>>

\* the resolver is not part of the run
CfgOff ==
    /\ fullConfig = <<>>
    /\ rawConfig = <<>>
    /\ cpc = "off"
    /\ cci = 0
    /\ passes = 0
    /\ before = <<>>
    /\ callRet = <<>>
    /\ todo = <<>>
    /\ rendered = <<>>
    /\ self_clusters = <<>>
    /\ lookups = 0
    /\ all_cluster_info = <<>>
    /\ hostnameOut = ""

\* configure and limit_dhcp_range read neither the leases nor a NodeConfig
Init ==
    /\ hostname \in {"localhost", "remotehost"}
    /\ net \in InitNets
    /\ leases = <<>>
    /\ qemuConf \in QemuConfs
    /\ Fresh
    /\ CfgOff

Next ==
    \/ call_configure
    \/ configure_enable
    \/ ensure_run_as_root
    \/ ensure_run_as_root_sed
    \/ ensure_run_as_root_restart
    \/ configure_dumpxml
    \/ configure_write
    \/ ensure_started_destroy
    \/ ensure_started_undefine
    \/ ensure_started_link_delete
    \/ ensure_started_define
    \/ ensure_started_link_down
    \/ ensure_started_start
    \/ ensure_started_link_up
    \/ call_limit_dhcp_range
    \/ limit_dhcp_range_dumpxml
    \/ limit_dhcp_range_delete
    \/ limit_dhcp_range_add
    \/ configure_restart

\* calls of configure and limit_dhcp_range on one host, in any order
Spec == Init /\ [][Next]_vars

\* setup_dhcp_entry reads neither the hostname nor qemu.conf
InitDhcp ==
    /\ hostname = "localhost"
    /\ net \in InitNets
    /\ leases \in LeaseTables
    /\ qemuConf = [user |-> "root", group |-> "root"]
    /\ Fresh
    /\ CfgOff

NextDhcp ==
    \/ call_setup_dhcp_entry
    \/ setup_dhcp_entry_check
    \/ setup_dhcp_entry_dumpxml
    \/ setup_dhcp_entry_delete
    \/ setup_dhcp_entry_leases
    \/ setup_dhcp_entry_add

\* calls of setup_dhcp_entry on one host
SpecDhcp == InitDhcp /\ [][NextDhcp]_vars


\* the three methods on one host (a localhost whose qemu.conf is still unpatched)
InitAll ==
    /\ hostname = "localhost"
    /\ net \in InitNets
    /\ leases \in LeaseTables
    /\ qemuConf = [user |-> "commented", group |-> "commented"]
    /\ Fresh
    /\ CfgOff

NextAll == Next \/ NextDhcp

SpecAll == InitAll /\ [][NextAll]_vars

-----------------------------------------------------------------------------
(* ClustersConfig: the values of the parsed YAML *)

\* A Python value is its type's name and its text; a list carries its elements.
PyStr(s) == <<"str", s>>
PyInt(s) == <<"int", s>>
PyBool(s) == <<"bool", s>>
PyNone == <<"NoneType", "None">>
PyList(s) == <<"list", s>>

IsList(v) == v[1] = "list"
Elems(v) == v[2]

\* f'{v}' of a str, an int, a bool or None
Format(v) == v[2]

\* a dict is the function from its keys to their values
EmptyDict == [k \in {} |-> PyNone]

\* d[k] = v
Put(d, k, v) == [x \in DOMAIN d \cup {k} |-> IF x = k THEN v ELSE d[x]]

\* the mapping without the test: d[k] = v whatever d holds
DefaultOverwrite(d, k, v) == Put(d, k, v)

\* if k not in d: d[k] = v
Default(d, k, v) == IF k \in DOMAIN d THEN d ELSE Put(d, k, v)

\* os.path.join(a, b)
PathJoin(a, b) ==
    IF Len(b) > 0 /\ SubSeq(b, 1, 1) = "/" THEN b
    ELSE IF a = "" \/ SubSeq(a, Len(a), Len(a)) = "/" THEN a \o b
    ELSE a \o "/" \o b

\* os.getcwd()
Cwd == "/root/cda"

\* what a step of the cascade leaves, and the exception it raised
Done(v) == [v |-> v, err |-> "none"]
Raise(v, e) == [v |-> v, err |-> e]

-----------------------------------------------------------------------------
(* ClustersConfig.__init__: the default cascade over one cluster `cc` *)

\* lines 33-53
ClusterDefaults(cc) ==
    LET a == Default(Default(cc, "masters", PyList(<<>>)), "workers", PyList(<<>>))
    IN  IF "kubeconfig" \notin DOMAIN a /\ "name" \notin DOMAIN a
        THEN Raise(a, "KeyError")
        ELSE
          LET kubeconfig ==
                  IF "name" \in DOMAIN a
                  THEN PyStr(PathJoin(Cwd, "kubeconfig." \o Format(a["name"])))
                  ELSE PyNone
              b == Default(a, "kubeconfig", kubeconfig)
              c == Default(b, "preconfig", PyStr(""))
              d == Default(c, "postconfig", PyStr(""))
              e == Default(d, "version", PyStr("4.13.0-ec.3"))
              f == Default(e, "external_port", PyStr("auto"))
              g == Default(f, "network_api_port", PyStr("auto"))
              h == Default(g, "proxy", PyNone)
          IN  Done(Default(h, "hosts", PyList(<<>>)))

\* cc["masters"] + cc["workers"] is defined on two lists
CanConcat(cc) == IsList(cc["masters"]) /\ IsList(cc["workers"])

\* line 56
all_nodes(cc) == Elems(cc["masters"]) \o Elems(cc["workers"])

\* the dicts of all_nodes are the dicts of cc["masters"] and cc["workers"]:
\* cc once the loop over all_nodes has made `nodes` of them
WithNodes(cc, nodes) ==
    LET m == Len(Elems(cc["masters"]))
    IN  Put(Put(cc, "masters", PyList(SubSeq(nodes, 1, m))),
            "workers", PyList(SubSeq(nodes, m + 1, Len(nodes))))

\* lines 58-63
NodeDefault(n) ==
    Default(Default(Default(n, "disk_size", PyInt("48")),
                    "preallocated", PyBool("True")),
            "os_variant", PyStr("rhel8.6"))

\* lines 56-63
NodeDefaults(cc) ==
    IF ~CanConcat(cc) THEN Raise(cc, "TypeError")
    ELSE LET nodes == all_nodes(cc)
         IN  Done(WithNodes(cc, [i \in 1..Len(nodes) |-> NodeDefault(nodes[i])]))

\* a set that never holds a name
HostNamesEmpty(hosts) == {}

\* line 65: set(x["name"] for x in cc["hosts"])
HostNames(hosts) == {hosts[i]["name"] : i \in 1..Len(hosts)}

RECURSIVE SynthesizeNoAdd(_, _, _)
\* lines 66-68 without line 69
SynthesizeNoAdd(hosts, node_names, nodes) ==
    IF Len(nodes) = 0 THEN Done(hosts)
    ELSE IF "node" \notin DOMAIN Head(nodes) THEN Raise(hosts, "KeyError")
    ELSE IF Head(nodes)["node"] \notin node_names
         THEN SynthesizeNoAdd(Append(hosts, Put(EmptyDict, "name", Head(nodes)["node"])),
                              node_names, Tail(nodes))
         ELSE SynthesizeNoAdd(hosts, node_names, Tail(nodes))

RECURSIVE Synthesize(_, _, _)
\* lines 66-69, over the nodes still to visit
Synthesize(hosts, node_names, nodes) ==
    IF Len(nodes) = 0 THEN Done(hosts)
    ELSE IF "node" \notin DOMAIN Head(nodes) THEN Raise(hosts, "KeyError")
    ELSE IF Head(nodes)["node"] \notin node_names
         THEN Synthesize(Append(hosts, Put(EmptyDict, "name", Head(nodes)["node"])),
                         node_names \cup {Head(nodes)["node"]}, Tail(nodes))
         ELSE Synthesize(hosts, node_names, Tail(nodes))

\* lines 65-69
HostsSynthesis(cc) ==
    IF ~IsList(cc["hosts"]) THEN Raise(cc, "TypeError")
    ELSE LET hosts == Elems(cc["hosts"])
         IN  IF \E i \in 1..Len(hosts) : "name" \notin DOMAIN hosts[i]
             THEN Raise(cc, "KeyError")
             ELSE LET r == Synthesize(hosts, HostNames(hosts), all_nodes(cc))
                  IN  Raise(Put(cc, "hosts", PyList(r.v)), r.err)

\* lines 73-82 with the image named after the node's host
NodeOptionalByHost(cc, node) ==
    LET a == Default(Default(Default(node, "bmc_ip", PyNone),
                             "bmc_user", PyStr("root")),
                     "bmc_password", PyStr("calvin"))
    IN  IF "image_path" \in DOMAIN a THEN Done(a)
        ELSE IF "name" \notin DOMAIN cc \/ "node" \notin DOMAIN a
             THEN Raise(a, "KeyError")
             ELSE Done(Put(a, "image_path",
                           PyStr("/home/" \o Format(cc["name"]) \o "_guests_images/"
                                 \o Format(a["node"]) \o ".qcow2")))

\* lines 73-82
NodeOptional(cc, node) ==
    LET a == Default(Default(Default(node, "bmc_ip", PyNone),
                             "bmc_user", PyStr("root")),
                     "bmc_password", PyStr("calvin"))
    IN  IF "image_path" \in DOMAIN a THEN Done(a)
        ELSE IF "name" \notin DOMAIN cc \/ "name" \notin DOMAIN a
             THEN Raise(a, "KeyError")
             ELSE LET base_path == "/home/" \o Format(cc["name"]) \o "_guests_images"
                      qemu_img_name == Format(a["name"]) \o ".qcow2"
                  IN  Done(Put(a, "image_path", PyStr(PathJoin(base_path, qemu_img_name))))

RECURSIVE NodesOptional(_, _, _)
\* line 72: the loop from node i on; it stops at the first exception
NodesOptional(cc, nodes, i) ==
    IF i > Len(nodes) THEN Done(nodes)
    ELSE LET r == NodeOptional(cc, nodes[i])
             after == [nodes EXCEPT ![i] = r.v]
         IN  IF r.err # "none" THEN Raise(after, r.err)
             ELSE NodesOptional(cc, after, i + 1)

\* lines 72-82
NodeOptionalDefaults(cc) ==
    LET r == NodesOptional(cc, all_nodes(cc), 1)
    IN  Raise(WithNodes(cc, r.v), r.err)

\* lines 84-91
HostDefault(cc, host_config) ==
    Default(Default(Default(Default(host_config,
                                    "network_api_port", cc["network_api_port"]),
                            "username", PyStr("core")),
                    "password", PyNone),
            "pre_installed", PyStr("True"))

\* lines 83-91
HostDefaults(cc) ==
    LET hosts == Elems(cc["hosts"])
    IN  Done(Put(cc, "hosts", PyList([i \in 1..Len(hosts) |-> HostDefault(cc, hosts[i])])))

-----------------------------------------------------------------------------
(* ClustersConfig: the documents the resolver is given *)

MaxNodes == 2
MaxClusters == 2
MaxPasses == 2

RECURSIVE SeqsUpTo(_, _)
\* the sequences over S of at most n elements
SeqsUpTo(S, n) ==
    IF n = 0 THEN {<<>>}
    ELSE LET shorter == SeqsUpTo(S, n - 1)
         IN  shorter \cup {Append(s, x) : s \in shorter, x \in S}

\* a node with the two keys every node of the examples carries
NodeBare(name, node) == [name |-> PyStr(name), node |-> PyStr(node)]

\* a node that sets every key the cascade has a default for
NodeFull(name, node) ==
    [name |-> PyStr(name), node |-> PyStr(node), disk_size |-> PyInt("120"),
     preallocated |-> PyBool("False"), os_variant |-> PyStr("rhel9.2"),
     bmc_ip |-> PyStr("10.0.0.5"), bmc_user |-> PyNone, bmc_password |-> PyStr(""),
     image_path |-> PyStr("/var/lib/images/own.qcow2")]

MasterNodes == {NodeBare("m1", "hostA"), NodeFull("m2", "hostB")}
WorkerNodes == {NodeBare("w1", "hostA"), NodeBare("w2", "hostC")}

HostBare(name) == [name |-> PyStr(name)]

\* a host entry that sets every key the cascade has a default for
HostFull(name) ==
    [name |-> PyStr(name), network_api_port |-> PyStr("eno2"), username |-> PyNone,
     password |-> PyStr(""), pre_installed |-> PyBool("False")]

\* hosts lists: empty, a referenced host, an unreferenced one, a repeated name
HostLists ==
    {<<>>,
     <<HostBare("hostA")>>,
     <<HostBare("hostZ")>>,
     <<HostFull("hostB"), HostBare("hostB")>>,
     <<HostFull("hostA"), HostBare("hostZ")>>}

MastersFields ==
    {EmptyDict} \cup {[masters |-> PyList(s)] : s \in SeqsUpTo(MasterNodes, MaxNodes)}
WorkersFields ==
    {EmptyDict} \cup {[workers |-> PyList(s)] : s \in SeqsUpTo(WorkerNodes, MaxNodes)}
HostsFields ==
    {EmptyDict} \cup {[hosts |-> PyList(s)] : s \in HostLists}

\* cluster-level keys: the name alone, some keys (empty and null ones), all keys
ClusterBare == [name |-> PyStr("c1")]
ClusterPartial ==
    [name |-> PyStr("c1"), version |-> PyStr("4.14.0"), preconfig |-> PyStr(""),
     postconfig |-> PyNone, network_api_port |-> PyStr("eno4")]
ClusterFull ==
    [name |-> PyStr("c1"), kubeconfig |-> PyStr("/kube/config"),
     preconfig |-> PyStr("pre.py"), postconfig |-> PyStr("post.py"),
     version |-> PyStr(""), external_port |-> PyStr("eno3"),
     network_api_port |-> PyNone, proxy |-> PyStr("http://proxy:3128")]

\* clusters on which a step of the cascade raises
OddClusters ==
    {[name |-> PyStr("c1"), masters |-> PyNone],
     [name |-> PyStr("c1"), hosts |-> PyNone, workers |-> PyList(<<NodeBare("w1", "hostA")>>)],
     [name |-> PyStr("c1"), hosts |-> PyList(<<[username |-> PyStr("admin")]>>)],
     [name |-> PyStr("c1"),
      workers |-> PyList(<<NodeBare("w1", "hostA"), [name |-> PyStr("w3")]>>)],
     [name |-> PyStr("c1"),
      masters |-> PyList(<<NodeBare("m1", "hostA"), [node |-> PyStr("hostB")]>>)],
     [masters |-> PyList(<<NodeBare("m1", "hostA")>>)],
     [kubeconfig |-> PyStr("/kube/config"), masters |-> PyList(<<NodeBare("m1", "hostA")>>)],
     [name |-> PyNone, masters |-> PyList(<<NodeBare("m1", "hostA")>>)]}

CcInputs ==
    {ClusterBare @@ m @@ w @@ h :
        m \in MastersFields, w \in WorkersFields, h \in HostsFields}
    \cup {c @@ [masters |-> PyList(<<NodeBare("m1", "hostA"), NodeFull("m2", "hostB")>>),
                workers |-> PyList(<<NodeBare("w1", "hostA")>>)] @@ h :
            c \in {ClusterPartial, ClusterFull}, h \in HostsFields}
    \cup OddClusters

SmallClusters ==
    {[name |-> PyStr("c2"), workers |-> PyList(<<NodeBare("w1", "hostA")>>)],
     [name |-> PyStr("c3"), masters |-> PyList(<<NodeFull("m2", "hostB")>>),
      hosts |-> PyList(<<HostBare("hostZ")>>)]}

\* the values of the key "clusters" of the cluster being resolved
ClusterLists ==
    {<<c>> : c \in CcInputs} \cup SeqsUpTo(SmallClusters, MaxClusters)

\* documents["clusters"][0]: a cluster, with or without a "clusters" key of its own
TopClusters ==
    {[name |-> PyStr("c0"), masters |-> PyList(<<NodeBare("m0", "host0")>>)] @@ f :
        f \in {EmptyDict, [clusters |-> PyNone]}
              \cup {[clusters |-> PyList(l)] : l \in ClusterLists}}

\* what safe_load returns for the rendered document
Documents ==
    {[clusters |-> PyList(<<c>>)] : c \in TopClusters}
    \cup {[clusters |-> PyList(<<[name |-> PyStr("c0")], ClusterBare>>)]}

\* path.exists(yaml_path) is false: there is no document
NoFile == [missing |-> PyStr("cluster.yaml")]

-----------------------------------------------------------------------------
(* ClustersConfig: the template of the document and the topology *)

\* str.strip() of the output of `hostname`: the newline at its end goes
Strip(s) ==
    IF Len(s) > 0 /\ SubSeq(s, Len(s), Len(s)) = "\n" THEN SubSeq(s, 1, Len(s) - 1) ELSE s

\* s.split(".")[0]
FirstLabel(s) ==
    LET dots == {i \in 1..Len(s) : SubSeq(s, i, i) = "."}
    IN  IF dots = {} THEN s
        ELSE SubSeq(s, 1, (CHOOSE i \in dots : \A j \in dots : i <= j) - 1)

\* current_host(): lines 20-22
current_host(out) == FirstLabel(Strip(out))

Digits == {"0", "1", "2", "3", "4", "5", "6", "7", "8", "9"}

\* the name as it is
KeepName(name) == name

RECURSIVE StripNonDigits(_)
\* re.sub("[^0-9]", "", name)
StripNonDigits(name) ==
    IF name = "" THEN ""
    ELSE (IF SubSeq(name, 1, 1) \in Digits THEN SubSeq(name, 1, 1) ELSE "")
         \o StripNonDigits(SubSeq(name, 2, Len(name)))

\* self._clusters is None
NoInfo == [workers |-> <<>>, network_api_port |-> "", loaded |-> FALSE]

\* a ClusterInfo of load_all_cluster_info()
ClusterInfo(workers, network_api_port) ==
    [workers |-> workers, network_api_port |-> network_api_port, loaded |-> TRUE]

\* the functions the template may call
TopologyFunctions == {"worker_number", "worker_name", "api_network"}

\* the lookup is made and never finds the host
AlwaysLookup(info, all_info, ch) ==
    [info |-> NoInfo, looked |-> 1, err |-> "exit"]

\* _ensure_clusters_loaded, lines 147-155: self._clusters after it, the lookups it
\* made, and whether it called sys.exit(-1)
ensure_clusters_loaded(info, all_info, ch) ==
    IF info.loaded THEN [info |-> info, looked |-> 0, err |-> "none"]
    ELSE IF ch \in DOMAIN all_info
         THEN [info |-> all_info[ch], looked |-> 1, err |-> "none"]
         ELSE [info |-> NoInfo, looked |-> 1, err |-> "exit"]

\* self._clusters.workers[a]: a counts from 0
WorkerAt(info, a) ==
    IF a + 1 <= Len(info.workers) THEN Done(info.workers[a + 1])
    ELSE Raise("", "IndexError")

\* lines 118-132: what a call of the template returns
TemplateCall(c, info) ==
    IF c.f = "worker_number"
    THEN LET w == WorkerAt(info, c.a) IN Raise(StripNonDigits(w.v), w.err)
    ELSE IF c.f = "worker_name" THEN WorkerAt(info, c.a)
    ELSE Done(info.network_api_port)

\* the key of the document whose quoted value holds the i-th expression
SlotKey(i) == "slot" \o ToString(i)

\* the text of an expression of the template
ExprText(c) ==
    IF c.f = "cluster_name" THEN "{{ cluster_name }}"
    ELSE IF c.f = "api_network" THEN "{{ api_network() }}"
    ELSE "{{ " \o c.f \o "(" \o ToString(c.a) \o ") }}"

RECURSIVE WithSlots(_, _, _)
\* the cluster with the texts of `slots` under the slot keys from the i-th on
WithSlots(cluster, slots, i) ==
    IF i > Len(slots) THEN cluster
    ELSE WithSlots(Put(cluster, SlotKey(i), PyStr(slots[i])), slots, i + 1)

\* line 144: template.render(**kwargs) seen through safe_load: the document with
\* each expression replaced by the text rendered for it
Render(doc, texts) ==
    Put(doc, "clusters",
        PyList([Elems(doc["clusters"]) EXCEPT ![1] = WithSlots(@, texts, 1)]))

-----------------------------------------------------------------------------
(* ClustersConfig: templates, topologies, and the documents of the methods *)

MaxCalls == 2

Call(f, a) == [f |-> f, a |-> a]

\* the expressions a template is made of; worker 5 is beyond every topology
Calls ==
    {Call("worker_number", 0), Call("worker_number", 1), Call("worker_number", 2),
     Call("worker_name", 1), Call("worker_name", 5), Call("api_network", 0),
     Call("cluster_name", 0)}

Templates == SeqsUpTo(Calls, MaxCalls)

\* the outputs of `hostname` on the local host
Hostnames == {"node10.lab.example.com\n", "other7\n"}

\* load_all_cluster_info(): the clusters by host
Topologies ==
    {[h \in {"node10"} |-> ClusterInfo(<<"worker-12", "bf-worker-3b", "w1-r2x3">>, "eno12")],
     [h \in {"node11", "node10.lab"} |-> ClusterInfo(<<"worker">>, "eno7")]}

\* the document of a template: each expression is the quoted value of a key of
\* the first cluster
TemplateDoc(template) ==
    [clusters |->
        PyList(<<WithSlots([name |-> PyStr("c0"), clusters |-> PyList(<<>>)],
                           [i \in 1..Len(template) |-> ExprText(template[i])], 1)>>)]

ExternalPortFields ==
    {EmptyDict, [external_port |-> PyStr("auto")], [external_port |-> PyStr("eno3")],
     [external_port |-> PyNone]}

\* documents whose first cluster has the keys the methods read
MethodDocs ==
    {[clusters |-> PyList(<<c>>)] :
        c \in {[name |-> PyStr("c0"), clusters |-> PyList(<<>>)] @@ m @@ w :
                  m \in MastersFields, w \in WorkersFields}
              \cup {[name |-> PyStr("c0"), clusters |-> PyList(<<x>>),
                     masters |-> PyList(<<NodeBare("m1", "hostA")>>)] @@ e :
                       x \in SmallClusters, e \in ExternalPortFields}
              \cup {[name |-> PyStr("c0"), clusters |-> PyList(<<>>),
                     masters |-> PyNone, workers |-> PyList(<<>>)],
                    [name |-> PyStr("c0"), clusters |-> PyList(<<>>),
                     masters |-> PyList(<<NodeBare("m1", "hostA")>>), workers |-> PyNone]}}

\* common.route_to_port(host.LocalHost(), "default")
Routes == {PyStr("eno1")}

\* the interfaces of the local host, for host.LocalHost().port_exists
HostPorts == {PyStr("eno1"), PyStr("eno3")}

\* the values a caller stores with self[key] = value
SetItems == [external_port : {PyStr("auto"), PyStr("eno3")}]

-----------------------------------------------------------------------------
(* ClustersConfig: the steps of __init__ *)

\* lines 101, 103: safe_load(...)["clusters"][0]
LoadFullConfig(doc) == Elems(doc["clusters"])[1]

\* the list line 32 iterates over
Clusters(cfg) == Elems(cfg["clusters"])

\* the for of line 32 at its i-th turn
ForNext(cfg, i) == IF i > Len(Clusters(cfg)) THEN "done" ELSE "cluster_defaults"

resolverVars == <<rawConfig, passes, callRet, tplVars>>

\* ClustersConfig(yaml_path), lines 26-29, 93-101 and 134-142: the first parse
\* and the keyword arguments of the template
load_full_config ==
    /\ cpc = "init"
    /\ IF rawConfig = NoFile
       THEN /\ cpc' = "exit"
            /\ UNCHANGED <<fullConfig, before>>
       ELSE /\ fullConfig' = LoadFullConfig(rawConfig)
            /\ before' = LoadFullConfig(rawConfig)
            /\ cpc' = IF "name" \in DOMAIN LoadFullConfig(rawConfig)
                      THEN "apply_jinja" ELSE "KeyError"
    /\ UNCHANGED <<resolverVars, cci, netVars>>

\* no function of the topology was called
NotLoaded(info) == [info |-> info, looked |-> 0, err |-> "none"]

\* line 144: template.render evaluates the next expression of the document
apply_jinja_call ==
    /\ cpc = "apply_jinja"
    /\ todo # <<>>
    /\ LET c == Head(todo)
           e == IF c.f \in TopologyFunctions
                THEN ensure_clusters_loaded(self_clusters, all_cluster_info,
                                            current_host(hostnameOut))
                ELSE NotLoaded(self_clusters)
           r == IF e.err # "none" THEN Raise("", e.err)
                ELSE IF c.f = "cluster_name" THEN Done(Format(fullConfig["name"]))
                ELSE TemplateCall(c, e.info)
       IN  /\ self_clusters' = e.info
           /\ lookups' = lookups + e.looked
           /\ IF r.err # "none"
              THEN /\ cpc' = r.err
                   /\ UNCHANGED <<todo, rendered>>
              ELSE /\ cpc' = "apply_jinja"
                   /\ todo' = Tail(todo)
                   /\ rendered' = Append(rendered, [call |-> c, text |-> r.v])
    /\ UNCHANGED <<fullConfig, rawConfig, passes, cci, before, callRet,
                   all_cluster_info, hostnameOut, netVars>>

\* lines 144 and 103: the rendered document is parsed
apply_jinja_render ==
    /\ cpc = "apply_jinja"
    /\ todo = <<>>
    /\ LET texts == [i \in 1..Len(rendered) |-> rendered[i].text]
           cfg == LoadFullConfig(Render(rawConfig, texts))
       IN  /\ fullConfig' = cfg
           /\ before' = cfg
    /\ cpc' = "cascade"
    /\ UNCHANGED <<resolverVars, cci, netVars>>

\* line 32: for cc in self.fullConfig["clusters"]
cascade_begin ==
    /\ cpc = "cascade"
    /\ passes' = passes + 1
    /\ cci' = 1
    /\ cpc' = IF "clusters" \notin DOMAIN fullConfig THEN "KeyError"
              ELSE IF ~IsList(fullConfig["clusters"]) THEN "TypeError"
              ELSE ForNext(fullConfig, 1)
    /\ UNCHANGED <<rawConfig, fullConfig, before, callRet, tplVars, netVars>>

\* the cluster the loop is at
cc == Clusters(fullConfig)[cci]

\* a part of the loop's body runs on cc and leaves r
Ran(at, r, next) ==
    /\ cpc = at
    /\ fullConfig' = Put(fullConfig, "clusters",
                         PyList([Clusters(fullConfig) EXCEPT ![cci] = r.v]))
    /\ cpc' = IF r.err # "none" THEN r.err ELSE next
    /\ UNCHANGED <<resolverVars, before, netVars>>

cluster_defaults ==
    /\ Ran("cluster_defaults", ClusterDefaults(cc), "node_defaults")
    /\ UNCHANGED cci

node_defaults ==
    /\ Ran("node_defaults", NodeDefaults(cc), "hosts_synthesis")
    /\ UNCHANGED cci

hosts_synthesis ==
    /\ Ran("hosts_synthesis", HostsSynthesis(cc), "node_optional_defaults")
    /\ UNCHANGED cci

node_optional_defaults ==
    /\ Ran("node_optional_defaults", NodeOptionalDefaults(cc), "host_defaults")
    /\ UNCHANGED cci

host_defaults ==
    /\ Ran("host_defaults", HostDefaults(cc), ForNext(fullConfig, cci + 1))
    /\ cci' = cci + 1

\* the cascade of lines 32-91 is applied to the configuration it has resolved
resolve_again ==
    /\ cpc = "done"
    /\ passes < MaxPasses
    /\ before' = fullConfig
    /\ cpc' = "cascade"
    /\ UNCHANGED <<rawConfig, fullConfig, passes, cci, callRet, tplVars, netVars>>

-----------------------------------------------------------------------------
(* ClustersConfig: the methods of a constructed object *)

\* __init__ has returned
Ready == cpc \in {"done", "ready"}

\* what a method leaves: its value or exception, what it asked the host, whether
\* it asked for the route, and fullConfig when it was called
Returned(name, r, asked, routed) ==
    [name |-> name, value |-> r.v, err |-> r.err, asked |-> asked,
     routed |-> routed, was |-> fullConfig]

NoCall == [name |-> "", value |-> PyNone, err |-> "none", asked |-> <<>>,
           routed |-> FALSE, was |-> EmptyDict]

\* len(v) of a list; None has no len()
LenOf(v) == IF IsList(v) THEN Done(Len(Elems(v))) ELSE Raise(0, "TypeError")

\* len(cfg[key]) == n
LenIs(cfg, key, n) ==
    IF key \notin DOMAIN cfg THEN Raise(PyNone, "KeyError")
    ELSE IF LenOf(cfg[key]).err # "none" THEN Raise(PyNone, "TypeError")
    ELSE Done(PyBool(IF LenOf(cfg[key]).v = n THEN "True" ELSE "False"))

\* the workers are not looked at
IsSnoMastersOnly(cfg) == LenIs(cfg, "masters", 1)

\* is_sno, lines 181-182: `and` evaluates its right side only when the left is true
IsSno(cfg) ==
    IF LenIs(cfg, "masters", 1) # Done(PyBool("True")) THEN LenIs(cfg, "masters", 1)
    ELSE LenIs(cfg, "workers", 0)

is_sno ==
    /\ Ready
    /\ callRet' = Returned("is_sno", IsSno(fullConfig), <<>>, FALSE)
    /\ cpc' = "ready"
    /\ UNCHANGED <<fullConfig, rawConfig, passes, cci, before, tplVars, netVars>>

\* __setitem__, lines 160-161
setitem ==
    /\ Ready
    /\ \E kv \in SetItems :
          /\ fullConfig' = Put(fullConfig, "external_port", kv.external_port)
          /\ callRet' = Returned("__setitem__", Done(PyNone), <<>>, FALSE)
    /\ cpc' = "ready"
    /\ UNCHANGED <<rawConfig, passes, cci, before, tplVars, netVars>>

\* the route is asked for whatever is stored
PrepareAlways(cfg, detected) ==
    IF "external_port" \notin DOMAIN cfg
    THEN [cfg |-> cfg, r |-> Raise(PyNone, "KeyError"), routed |-> FALSE]
    ELSE [cfg |-> Put(cfg, "external_port", detected), r |-> Done(PyNone), routed |-> TRUE]

\* prepare_external_port and autodetect_external_port, lines 105-111
Prepare(cfg, detected) ==
    IF "external_port" \notin DOMAIN cfg
    THEN [cfg |-> cfg, r |-> Raise(PyNone, "KeyError"), routed |-> FALSE]
    ELSE IF cfg["external_port"] = PyStr("auto")
    THEN [cfg |-> Put(cfg, "external_port", detected), r |-> Done(PyNone), routed |-> TRUE]
    ELSE [cfg |-> cfg, r |-> Done(PyNone), routed |-> FALSE]

prepare_external_port ==
    /\ Ready
    /\ \E detected \in Routes :
          LET p == Prepare(fullConfig, detected)
          IN  /\ fullConfig' = p.cfg
              /\ callRet' = Returned("prepare_external_port", p.r, <<>>, p.routed)
    /\ cpc' = "ready"
    /\ UNCHANGED <<rawConfig, passes, cci, before, tplVars, netVars>>

\* validate_external_port, lines 113-115: the value and what port_exists was asked
Validate(cfg) ==
    IF "external_port" \notin DOMAIN cfg
    THEN [r |-> Raise(PyNone, "KeyError"), asked |-> <<>>]
    ELSE [r |-> Done(PyBool(IF cfg["external_port"] \in HostPorts THEN "True" ELSE "False")),
          asked |-> <<cfg["external_port"]>>]

validate_external_port ==
    /\ Ready
    /\ callRet' = Returned("validate_external_port", Validate(fullConfig).r,
                           Validate(fullConfig).asked, FALSE)
    /\ cpc' = "ready"
    /\ UNCHANGED <<fullConfig, rawConfig, passes, cci, before, tplVars, netVars>>

-----------------------------------------------------------------------------
(* ClustersConfig: the runs *)

\* the template is empty and the topology is not asked
NoTemplate ==
    /\ todo = <<>>
    /\ rendered = <<>>
    /\ self_clusters = NoInfo
    /\ lookups = 0
    /\ all_cluster_info = EmptyDict
    /\ hostnameOut = "localhost\n"

\* the host and the virtual network play no part
NoBridge ==
    /\ hostname = "localhost"
    /\ net = NoNet
    /\ leases = <<>>
    /\ qemuConf = [user |-> "root", group |-> "root"]
    /\ Fresh

\* the resolver on one document
InitResolver ==
    /\ NoBridge
    /\ NoTemplate
    /\ callRet = NoCall
    /\ rawConfig \in Documents \cup {NoFile}
    /\ fullConfig = EmptyDict
    /\ before = EmptyDict
    /\ cpc = "init"
    /\ passes = 0
    /\ cci = 0

NextResolver ==
    \/ load_full_config
    \/ apply_jinja_render
    \/ cascade_begin
    \/ cluster_defaults
    \/ node_defaults
    \/ hosts_synthesis
    \/ node_optional_defaults
    \/ host_defaults
    \/ resolve_again

SpecResolver == InitResolver /\ [][NextResolver]_vars

-----------------------------------------------------------------------------
(* ClustersConfig: construction followed by calls, and templates *)

\* an object is constructed and its methods are called in any order
InitConfig ==
    /\ NoBridge
    /\ NoTemplate
    /\ rawConfig \in MethodDocs
    /\ fullConfig = EmptyDict
    /\ before = EmptyDict
    /\ callRet = NoCall
    /\ cpc = "init"
    /\ passes = 0
    /\ cci = 0

NextConfig ==
    \/ load_full_config
    \/ apply_jinja_render
    \/ cascade_begin
    \/ cluster_defaults
    \/ node_defaults
    \/ hosts_synthesis
    \/ node_optional_defaults
    \/ host_defaults
    \/ is_sno
    \/ setitem
    \/ prepare_external_port
    \/ validate_external_port

SpecConfig == InitConfig /\ [][NextConfig]_vars

\* a document with a template is loaded
InitJinja ==
    /\ NoBridge
    /\ \E t \in Templates :
          /\ todo = t
          /\ rawConfig = TemplateDoc(t)
    /\ rendered = <<>>
    /\ self_clusters = NoInfo
    /\ lookups = 0
    /\ all_cluster_info \in Topologies
    /\ hostnameOut \in Hostnames
    /\ fullConfig = EmptyDict
    /\ before = EmptyDict
    /\ callRet = NoCall
    /\ cpc = "init"
    /\ passes = 0
    /\ cci = 0

NextJinja ==
    \/ load_full_config
    \/ apply_jinja_call
    \/ apply_jinja_render
    \/ cascade_begin

SpecJinja == InitJinja /\ [][NextJinja]_vars

-----------------------------------------------------------------------------
(* Reading the command log *)

Issued(c) == \E i \in 1..Len(cmds) : cmds[i] = c

\* every a of the log comes before every b of the log
Before(a, b) ==
    \A i \in 1..Len(cmds), j \in 1..Len(cmds) : cmds[i] = a /\ cmds[j] = b => i < j

\* b is issued only after a: b in the log means a is there, earlier
Follows(b, a) == Issued(b) => Issued(a) /\ Before(a, b)

LastCmd == cmds[Len(cmds)]

InConfigure == op.name = "configure"
InSetup == op.name = "setup_dhcp_entry"

\* configure() has read the current definition into `ret`
Probed == InConfigure /\ Issued(CmdDumpXml)

NameIn(table, name) == \E i \in 1..Len(table) : table[i].name = name

Recreation == {CmdDestroy, CmdUndefine, CmdDefine, CmdStart}

-----------------------------------------------------------------------------
(* C1: when configure() reads a definition without stp='off', net-destroy,    *)
(* net-undefine, net-define and net-start are issued in that order, the API   *)
(* interface is set down before net-start and up after it; a run that returns *)
(* has issued all six.                                                        *)
C1_RecreateOrder ==
    (Probed /\ ~Contains(ret.out, "stp='off'")) =>
        LET down == "ip link set " \o op.arg.api_network \o " down"
            up == "ip link set " \o op.arg.api_network \o " up"
        IN  /\ Follows(CmdUndefine, CmdDestroy)
            /\ Follows(CmdDefine, CmdUndefine)
            /\ Follows(CmdStart, CmdDefine)
            /\ Follows(CmdStart, down)
            /\ Follows(up, CmdStart)
            /\ Before(down, CmdStart)
            /\ Before(CmdStart, up)
            /\ op.status = "ok" =>
                 \A c \in Recreation \cup {down, up} : Issued(c)

C1_Witness ==
    /\ Probed
    /\ ~Contains(ret.out, "stp='off'")
    /\ op.status = "ok"
    /\ Issued(CmdStart)
    /\ Issued("ip link set eno1 up")

-----------------------------------------------------------------------------
(* C2: setup_dhcp_entry for a name that has a static lease (whatever its MAC) *)
(* issues the add of the entry only after the delete of the name's entry, and *)
(* a call that returns has issued both.                                       *)
C2_DeleteBeforeAdd ==
    (InSetup /\ op.arg.ip # None /\ NameIn(hosts0, op.arg.name)) =>
        LET del == "virsh net-update default delete ip-dhcp-host \"<host name='"
                   \o op.arg.name \o "'/>\" --live --config"
            add == CmdHostAdd(op.arg)
        IN  /\ Follows(add, del)
            /\ op.status = "ok" => Issued(add)

C2_Witness ==
    /\ InSetup
    /\ NameIn(hosts0, op.arg.name)
    /\ hosts0[1].mac # op.arg.mac
    /\ op.status = "ok"
    /\ Issued(CmdHostAdd(op.arg))

-----------------------------------------------------------------------------
(* C3: once net-dhcp-leases has printed the node's name followed by a space,  *)
(* setup_dhcp_entry has exited and no add ip-dhcp-host is issued, with or     *)
(* without a static lease of the name.                                        *)
C3_ActiveLeaseAborts ==
    (InSetup /\ Issued(CmdLeases) /\ Contains(ret.out, op.arg.name \o " ")) =>
        /\ pc = "fatal"
        /\ op.status = "fatal"
        /\ \A i \in 1..Len(cmds) : ~Contains(cmds[i], "add ip-dhcp-host")

C3_Witness ==
    /\ InSetup
    /\ Issued(CmdLeases)
    /\ Contains(ret.out, op.arg.name \o " ")
    /\ ~NameIn(hosts0, op.arg.name)
    /\ pc = "fatal"

-----------------------------------------------------------------------------
(* C4: after a setup_dhcp_entry that returned, the static leases hold exactly *)
(* one entry of the node's name, with the node's MAC and IP; and when the     *)
(* call before was a returned setup_dhcp_entry of the same node, the leases   *)
(* are the ones the call started with.                                        *)
C4_Idempotent ==
    (InSetup /\ op.status = "ok") =>
        /\ Cardinality({i \in 1..Len(net.hosts) : net.hosts[i].name = op.arg.name}) = 1
        /\ \A i \in 1..Len(net.hosts) :
             net.hosts[i].name = op.arg.name =>
                net.hosts[i].mac = op.arg.mac /\ net.hosts[i].ip = op.arg.ip
        /\ (prev.name = "setup_dhcp_entry" /\ prev.status = "ok" /\ prev.arg = op.arg) =>
             net.hosts = hosts0

C4_Witness ==
    /\ InSetup
    /\ op.status = "ok"
    /\ prev.name = "setup_dhcp_entry"
    /\ prev.status = "ok"
    /\ prev.arg = op.arg
    /\ Len(net.hosts) > 0


-----------------------------------------------------------------------------
(* C5: a configure() that returned leaves "default" defined with stp off and  *)
(* without the stale range, and the configure() called right after it, once   *)
(* it has read that definition, issues none of net-destroy, net-undefine,     *)
(* net-define, net-start.                                                     *)
DefinedCorrect(n) ==
    /\ n.persistent
    /\ n.stp = "off"
    /\ \A i \in 1..Len(n.ranges) : n.ranges[i].start # "192.168.122.2"

C5_ConfigureIdempotent ==
    /\ (InConfigure /\ op.status = "ok") => DefinedCorrect(net)
    /\ (InConfigure /\ prev.name = "configure" /\ prev.status = "ok") =>
         /\ DefinedCorrect(net) \/ Issued(CmdDestroy)
         /\ (Probed /\ ret.rc = 0) =>
              /\ Contains(ret.out, "stp='off'")
              /\ ~Contains(ret.out, "range start='192.168.122.2'")
              /\ \A c \in Recreation : ~Issued(c)
              /\ pc = "idle"

C5_Witness ==
    /\ InConfigure
    /\ op.status = "ok"
    /\ prev.name = "configure"
    /\ prev.status = "ok"
    /\ ret.rc = 0
    /\ ~Issued(CmdDestroy)
    /\ bridgeFile # ""

-----------------------------------------------------------------------------
(* C6 as stated: a command that exits non-zero, other than net-destroy, a     *)
(* net-undefine that reports "Network not found" and the bridge delete, is    *)
(* followed by no other command.                                              *)
TeardownFailure ==
    \/ LastCmd = CmdDestroy
    \/ LastCmd = CmdLinkDelete
    \/ LastCmd = CmdUndefine /\ Contains(last.err, "Network not found")

Checked ==
    {CmdEnable, CmdRestart, CmdDefine, CmdStart}
    \cup (IF InSetup
          THEN {CmdDumpXml,
                "virsh net-update default delete ip-dhcp-host \"<host name='"
                    \o op.arg.name \o "'/>\" --live --config",
                "virsh net-update default add ip-dhcp-host \"<host mac='" \o op.arg.mac
                    \o "' name='" \o op.arg.name \o "' ip='" \o op.arg.ip
                    \o "'/>\" --live --config"}
          ELSE {})

-----------------------------------------------------------------------------
(* C7: setup_dhcp_entry of a node without an IP exits before any command is   *)
(* handed to the host.                                                        *)
C7_NoIpNoCommand ==
    (InSetup /\ op.arg.ip = None) =>
        /\ cmds = <<>>
        /\ pc \in {"dhcp_check", "fatal"}
        /\ net.hosts = hosts0

C7_Witness ==
    /\ InSetup
    /\ op.arg.ip = None
    /\ pc = "fatal"
    /\ op.status = "fatal"

-----------------------------------------------------------------------------
(* Reading the resolved configuration *)

\* the cascade has run to its end
Resolved == cpc = "done"

\* the hosts list the i-th cluster had when the cascade began (none: empty)
InputHosts(i) ==
    IF "hosts" \in DOMAIN Clusters(before)[i]
    THEN Elems(Clusters(before)[i]["hosts"])
    ELSE <<>>

ResolvedHosts(i) == Elems(Clusters(fullConfig)[i]["hosts"])

\* the node values of masters followed by workers
NodeValues(i) ==
    LET nodes == all_nodes(Clusters(fullConfig)[i])
    IN  [j \in 1..Len(nodes) |-> nodes[j]["node"]]

\* the positions of s where a value appears for the first time
Firsts(s) == {i \in 1..Len(s) : \A j \in 1..(i - 1) : s[j] # s[i]}

\* the rank of position i among the positions P
Rank(P, i) == Cardinality({j \in P : j <= i})

-----------------------------------------------------------------------------
-----------------------------------------------------------------------------
(* C9: whatever the cascade has done so far, every key the input held, at     *)
(* cluster, node or host level, is still there with the input's value, null   *)
(* and empty values included; lists of nodes keep their length and the hosts  *)
(* list keeps the input's entries at its head. The cluster held by           *)
(* fullConfig itself gets no key: the loop runs over its "clusters".          *)
KeepsFields(d0, d1) ==
    \A k \in DOMAIN d0 : k \in DOMAIN d1 /\ d1[k] = d0[k]

KeepsEntries(l0, l1) ==
    /\ IsList(l1)
    /\ Len(Elems(l1)) >= Len(Elems(l0))
    /\ \A j \in 1..Len(Elems(l0)) : KeepsFields(Elems(l0)[j], Elems(l1)[j])

KeepsCluster(c0, c1) ==
    \A k \in DOMAIN c0 :
        /\ k \in DOMAIN c1
        /\ IF k \in {"masters", "workers", "hosts"} /\ IsList(c0[k])
           THEN /\ KeepsEntries(c0[k], c1[k])
                /\ k # "hosts" => Len(Elems(c1[k])) = Len(Elems(c0[k]))
           ELSE c1[k] = c0[k]

C9_PurelyAdditive ==
    cpc \notin {"off", "init", "exit"} =>
        /\ \A k \in DOMAIN before \ {"clusters"} :
              k \in DOMAIN fullConfig /\ fullConfig[k] = before[k]
        /\ DOMAIN fullConfig = DOMAIN before
        /\ ("clusters" \in DOMAIN before /\ IsList(before["clusters"])) =>
              /\ IsList(fullConfig["clusters"])
              /\ Len(Clusters(fullConfig)) = Len(Clusters(before))
              /\ \A i \in 1..Len(Clusters(before)) :
                    KeepsCluster(Clusters(before)[i], Clusters(fullConfig)[i])
        /\ ("clusters" \in DOMAIN before /\ ~IsList(before["clusters"])) =>
              fullConfig["clusters"] = before["clusters"]

C9_Witness ==
    /\ Resolved
    /\ passes = 1
    /\ \E i \in 1..Len(Clusters(before)) :
          LET c0 == Clusters(before)[i]
              c1 == Clusters(fullConfig)[i]
          IN  /\ DOMAIN c0 = DOMAIN ClusterPartial \cup {"masters", "workers", "hosts"}
              /\ c0["postconfig"] = PyNone
              /\ c1["postconfig"] = PyNone
              /\ c1["preconfig"] = PyStr("")
              /\ c1["proxy"] = PyNone
              /\ c1["external_port"] = PyStr("auto")
              /\ Len(Elems(c0["hosts"])) = 2
              /\ Len(Elems(c0["masters"])) = 2
              /\ Elems(c0["hosts"])[1]["username"] = PyNone
              /\ Elems(c1["hosts"])[1]["username"] = PyNone
              /\ Elems(c1["hosts"])[2]["username"] = PyStr("core")
              /\ Elems(c1["masters"])[2]["bmc_user"] = PyNone
              /\ Elems(c1["masters"])[1]["bmc_user"] = PyStr("root")

-----------------------------------------------------------------------------
(* C10: the cascade applied to a configuration that a cascade has resolved    *)
(* leaves it as it was: same keys, same values, same hosts in the same order. *)
C10_CascadeIdempotent ==
    (Resolved /\ passes >= 2) => fullConfig = before

C10_Witness ==
    /\ Resolved
    /\ passes = 2
    /\ fullConfig = before
    /\ \E i \in 1..Len(Clusters(fullConfig)) :
          /\ Len(ResolvedHosts(i)) >= 3
          /\ Len(NodeValues(i)) >= 3
          /\ "image_path" \in DOMAIN all_nodes(Clusters(fullConfig)[i])[1]

-----------------------------------------------------------------------------
(* C18: configure() issues net-destroy, net-undefine, the bridge delete,      *)
(* net-define and net-start exactly when the definition it read lacks         *)
(* stp='off' or holds the range start 192.168.122.2: if so it goes on to the  *)
(* recreation and a call that returns has issued all five; if not it issues   *)
(* none of them and returns, whatever else the definition holds.              *)
Stale(out) ==
    ~Contains(out, "stp='off'") \/ Contains(out, "range start='192.168.122.2'")

C18_RecreateIff ==
    Probed =>
        /\ ~Stale(ret.out) =>
              /\ \A c \in Recreation \cup {CmdLinkDelete} : ~Issued(c)
              /\ pc = "idle"
              /\ cmds[Len(cmds)] = CmdDumpXml
        /\ Stale(ret.out) =>
              /\ pc \in {"cfg_write", "es_destroy"} \/ Issued(CmdDestroy)
              /\ op.status = "ok" /\ pc = "idle" =>
                    \A c \in Recreation \cup {CmdLinkDelete} : Issued(c)

C18_Witness ==
    /\ Probed
    /\ hostname = "localhost"
    /\ ret.rc = 0
    /\ Contains(ret.out, "192.168.123.250")
    /\ ~Contains(ret.out, "<range")
    /\ pc = "idle"
    /\ ~Issued(CmdDestroy)

-----------------------------------------------------------------------------
(* C19: in the recreation a net-undefine that fails with anything but         *)
(* "Network not found" ends the process, and none of the bridge delete,       *)
(* net-define, interface down, net-start, interface up is issued; one that    *)
(* fails with "Network not found" is followed by the bridge delete; whatever  *)
(* net-destroy and the bridge delete return, the next command is issued.      *)
C19_UndefineFailure ==
    (InConfigure /\ cmds # <<>>) =>
        /\ (LastCmd = CmdUndefine /\ last.rc # 0
                /\ ~Contains(last.err, "Network not found")) =>
              /\ pc = "fatal"
              /\ \A c \in {CmdLinkDelete, CmdDefine, CmdStart,
                           "ip link set " \o op.arg.api_network \o " down",
                           "ip link set " \o op.arg.api_network \o " up"} : ~Issued(c)
        /\ (LastCmd = CmdUndefine /\ last.rc # 0
                /\ Contains(last.err, "Network not found")) => pc = "es_linkdel"
        /\ LastCmd = CmdDestroy => pc = "es_undefine"
        /\ LastCmd = CmdLinkDelete => pc = "es_define"
        /\ pc = "fatal" => LastCmd \notin {CmdDestroy, CmdLinkDelete}

C19_Witness ==
    /\ InConfigure
    /\ Len(cmds) >= 2
    /\ LastCmd = CmdUndefine
    /\ last.rc # 0
    /\ ~Contains(last.err, "Network not found")
    /\ cmds[Len(cmds) - 1] = CmdDestroy
    /\ pc = "fatal"

-----------------------------------------------------------------------------
(* C20: limit_dhcp_range acts exactly when the definition it reads holds a    *)
(* range that starts at old_range: then it issues the delete of               *)
(* old_range-192.168.122.254 and after it the add of                          *)
(* new_range-192.168.122.254, otherwise it returns without any net-update.    *)
InLimit == op.name = "limit_dhcp_range"

OldRangeDefined ==
    Exists(net) /\ \E i \in 1..Len(net.ranges) : net.ranges[i].start = op.arg.old_range

RangeDeleteText ==
    "virsh net-update default delete ip-dhcp-range \"<range start='"
        \o op.arg.old_range \o "' end='192.168.122.254'/>\" --live --config"

RangeAddText ==
    "virsh net-update default add ip-dhcp-range \"<range start='"
        \o op.arg.new_range \o "' end='192.168.122.254'/>\" --live --config"

C20_Updates ==
    InLimit =>
        /\ \A i \in 1..Len(cmds) :
              Contains(cmds[i], "net-update") => cmds[i] \in {RangeDeleteText, RangeAddText}
        /\ Follows(RangeAddText, RangeDeleteText)
        /\ (pc = "idle" /\ Issued(RangeDeleteText)) => Issued(RangeAddText)
        /\ (pc = "idle" /\ Len(cmds) = 1) => LastCmd = CmdDumpXml

C20_ActsIffOldRange ==
    /\ []C20_Updates
    /\ [][(InLimit /\ pc = "limit_dumpxml") =>
            /\ (pc' = "limit_delete") = (last'.rc = 0 /\ OldRangeDefined)
            /\ pc' \in {"limit_delete", "idle"}]_vars
    /\ [][(InLimit /\ pc = "limit_delete") =>
            (pc' = "limit_add" /\ cmds' = Append(cmds, RangeDeleteText))]_vars

C20_Witness ==
    /\ InLimit
    /\ op.arg.old_range = StaleStart
    /\ Exists(net)
    /\ Len(net.ranges) = 1
    /\ net.ranges[1].start = NearStart
    /\ last.rc = 0
    /\ cmds = <<CmdDumpXml>>
    /\ pc = "idle"

-----------------------------------------------------------------------------
(* C11 as stated: the resolved configuration of an input cluster that lacks   *)
(* any of masters, workers, hosts has all three, and each one that was        *)
(* missing and got no synthesized entry is the empty list.                    *)
Constructed == cpc \in {"done", "KeyError", "TypeError"}

C11_SequencesPresent ==
    (Constructed /\ passes = 1 /\ "name" \in DOMAIN before) =>
        /\ cpc = "done"
        /\ \A k \in {"masters", "workers", "hosts"} :
              /\ k \in DOMAIN fullConfig
              /\ (k \notin DOMAIN before /\ (k = "hosts" => "masters" \notin DOMAIN before)) =>
                    fullConfig[k] = PyList(<<>>)

-----------------------------------------------------------------------------
(* C12: in every resolved cluster a master or worker that came without        *)
(* image_path has /home/{cluster name}_guests_images/{name}.qcow2, built      *)
(* from its own "name" and not from its "node".                               *)
GivenNodes(i) ==
    LET c == Clusters(before)[i]
    IN  (IF "masters" \in DOMAIN c THEN Elems(c["masters"]) ELSE <<>>)
        \o (IF "workers" \in DOMAIN c THEN Elems(c["workers"]) ELSE <<>>)

-----------------------------------------------------------------------------
(* C13 *)

\* the call of `name` that has just returned
Called(name) == cpc = "ready" /\ callRet.name = name

\* both keys hold lists
HasNodeLists(cfg) ==
    /\ "masters" \in DOMAIN cfg /\ IsList(cfg["masters"])
    /\ "workers" \in DOMAIN cfg /\ IsList(cfg["workers"])

\* C13: on a configuration whose masters and workers are lists, is_sno() returns
\* True exactly when masters has one element and workers has none, whatever the
\* two lengths are; it is False for two masters and no worker and for one master
\* and one worker; it leaves the configuration as it was
C13_IsSno ==
    (Called("is_sno") /\ HasNodeLists(callRet.was)) =>
        LET m == Len(Elems(callRet.was["masters"]))
            w == Len(Elems(callRet.was["workers"]))
        IN  /\ callRet.err = "none"
            /\ callRet.value = PyBool(IF m = 1 /\ w = 0 THEN "True" ELSE "False")
            /\ (m = 2 /\ w = 0) => callRet.value = PyBool("False")
            /\ (m = 1 /\ w = 1) => callRet.value = PyBool("False")
            /\ fullConfig = callRet.was

C13_Witness ==
    /\ Called("is_sno")
    /\ HasNodeLists(callRet.was)
    /\ Len(Elems(callRet.was["masters"])) = 1
    /\ Len(Elems(callRet.was["workers"])) = 1
    /\ callRet.value = PyBool("False")

-----------------------------------------------------------------------------
(* C16, C17 *)

\* the sentinel of line 46
Auto == PyStr("auto")

\* C16: prepare_external_port() asks for the route, and stores the detected
\* interface under external_port, exactly when the stored external_port equals
\* "auto"; every other key keeps its value, and when the stored value is anything
\* else (None included) the route is not asked for and the configuration is left
\* as a whole as it was
C16_PrepareIffAuto ==
    (Called("prepare_external_port") /\ "external_port" \in DOMAIN callRet.was) =>
        /\ callRet.err = "none"
        /\ callRet.routed = (callRet.was["external_port"] = Auto)
        /\ callRet.routed =>
              \E detected \in Routes : fullConfig = Put(callRet.was, "external_port", detected)
        /\ ~callRet.routed => fullConfig = callRet.was

C16_Witness ==
    /\ Called("prepare_external_port")
    /\ "external_port" \in DOMAIN callRet.was
    /\ callRet.was["external_port"] = Auto
    /\ callRet.routed
    /\ fullConfig["external_port"] = PyStr("eno1")
    /\ fullConfig # callRet.was

\* C17: validate_external_port() never asks the host whether an interface named
\* "auto" exists, and never changes the configuration
C17_AutoNeverAsked ==
    Called("validate_external_port") =>
        /\ \A i \in 1..Len(callRet.asked) : callRet.asked[i] # Auto
        /\ fullConfig = callRet.was

-----------------------------------------------------------------------------
(* C14 *)

\* the positions of the digits of a name
DigitsAt(name) == {i \in 1..Len(name) : SubSeq(name, i, i) \in Digits}

\* text is name without its non-digit characters, the digits in their order
DigitsOf(name, text) ==
    /\ Len(text) = Cardinality(DigitsAt(name))
    /\ \A i \in DigitsAt(name) :
          SubSeq(text, Rank(DigitsAt(name), i), Rank(DigitsAt(name), i)) = SubSeq(name, i, i)

\* the topology load_all_cluster_info() holds for the host the run is on
OwnTopology == all_cluster_info[current_host(hostnameOut)]

\* C14: the text rendered for worker_number(a) is the name of worker a of the
\* topology of the invoking host without its non-digit characters, the digits
\* kept in their order: "worker-12" gives "12" and "bf-worker-3b" gives "3"
C14_WorkerNumber ==
    \A k \in 1..Len(rendered) :
        rendered[k].call.f = "worker_number" =>
            /\ current_host(hostnameOut) \in DOMAIN all_cluster_info
            /\ self_clusters = OwnTopology
            /\ rendered[k].call.a + 1 <= Len(OwnTopology.workers)
            /\ LET name == OwnTopology.workers[rendered[k].call.a + 1]
               IN  /\ DigitsOf(name, rendered[k].text)
                   /\ name = "worker-12" => rendered[k].text = "12"
                   /\ name = "bf-worker-3b" => rendered[k].text = "3"

C14_Witness ==
    /\ Len(rendered) = 2
    /\ rendered[1] = [call |-> Call("worker_number", 1), text |-> "3"]
    /\ rendered[2] = [call |-> Call("worker_number", 2), text |-> "123"]
    /\ cpc = "done"
    /\ fullConfig[SlotKey(2)] = PyStr("123")

-----------------------------------------------------------------------------
(* C15 *)

\* the expressions evaluated so far, in order
RenderedCalls == [k \in 1..Len(rendered) |-> rendered[k].call]

\* the expressions of the document
TemplateOf == RenderedCalls \o todo

\* the expression whose evaluation ended the process
Failing == IF cpc \in {"exit", "IndexError"} /\ todo # <<>> THEN <<Head(todo)>> ELSE <<>>

\* the expressions whose evaluation has begun
Attempted == RenderedCalls \o Failing

NeedsTopology(calls) == \E k \in 1..Len(calls) : calls[k].f \in TopologyFunctions

\* the host is not in the data of load_all_cluster_info()
IdentityUnknown == current_host(hostnameOut) \notin DOMAIN all_cluster_info

C15_LazyLookup ==
    /\ lookups = (IF NeedsTopology(Attempted) THEN 1 ELSE 0)
    /\ self_clusters.loaded = (NeedsTopology(Attempted) /\ ~IdentityUnknown)
    /\ ~NeedsTopology(TemplateOf) => cpc \in {"init", "apply_jinja", "cascade", "done"}
    /\ (todo = <<>> /\ ~NeedsTopology(TemplateOf) /\ passes = 1) => cpc = "done"
    /\ (IdentityUnknown /\ NeedsTopology(Attempted)) =>
          /\ cpc = "exit"
          /\ ~NeedsTopology(RenderedCalls)
          /\ fullConfig = LoadFullConfig(rawConfig)
    /\ (IdentityUnknown /\ NeedsTopology(TemplateOf)) => cpc \in {"init", "apply_jinja", "exit"}
    /\ cpc = "exit" => IdentityUnknown /\ NeedsTopology(Failing)

\* the evaluation of an expression that calls one of the three functions
TopologyCall ==
    /\ cpc = "apply_jinja"
    /\ todo # <<>>
    /\ Head(todo).f \in TopologyFunctions

\* C15: no lookup is made while no expression calling worker_number, worker_name
\* or api_network is evaluated, and a document without such an expression is
\* resolved whether or not the host is known; the first such expression makes the
\* one lookup; when the host is not in the topology data that expression ends
\* the process, before the document is rendered, and nothing is resolved
C15_LazyHardDependency ==
    /\ []C15_LazyLookup
    /\ [][(TopologyCall /\ IdentityUnknown) => (cpc' = "exit" /\ lookups' = 1)]_vars
    /\ [][(TopologyCall /\ ~IdentityUnknown) =>
             (lookups' = 1 /\ self_clusters' = OwnTopology /\ cpc' # "exit")]_vars
    /\ [][(cpc = "apply_jinja" /\ ~TopologyCall) => (lookups' = lookups /\ cpc' # "exit")]_vars

\* the host is unknown: a document that names the cluster only is resolved
C15_Witness ==
    /\ IdentityUnknown
    /\ RenderedCalls = <<Call("cluster_name", 0), Call("cluster_name", 0)>>
    /\ cpc = "done"
    /\ lookups = 0
    /\ fullConfig[SlotKey(1)] = PyStr("c0")

\* the host is unknown: the first call of a function ends the process
C15_WitnessFatal ==
    /\ IdentityUnknown
    /\ RenderedCalls = <<Call("cluster_name", 0)>>
    /\ todo = <<Call("api_network", 0)>>
    /\ cpc = "exit"
    /\ lookups = 1

-----------------------------------------------------------------------------
(* C21 *)

\* an active lease is held under exactly `name`
NameInLeases(name) == \E i \in 1..Len(leases) : leases[i] = name

\* the exit of line 52: the active leases were the last thing read
LeaseAbort == InSetup /\ pc = "fatal" /\ Len(cmds) > 0 /\ LastCmd = CmdLeases

\* C21: setup_dhcp_entry exits on an active lease only when a lease is held
\* under exactly the node's name; a lease under another name, one that extends
\* the node's name or one that ends with it, does not end the call
C21_ExactNameOnly ==
    LeaseAbort => NameInLeases(op.arg.name)

-----------------------------------------------------------------------------
(* C22 *)

\* what the probe of /etc/libvirt/qemu.conf looks for
UserIsRoot == Contains(QemuConfText(qemuConf), "\nuser = \"root\"")

\* the log of configure() begins with the enable, then either the patch and the
\* restart or, at once, the read of the definition
C22_Step ==
    (InConfigure /\ Len(cmds) >= 1) =>
        /\ cmds[1] = CmdEnable
        /\ pc = "root_restart" => (Len(cmds) = 2 /\ cmds[2] = CmdSed)
        /\ \A i \in 1..Len(cmds) : cmds[i] = CmdSed => i = 2
        /\ (Len(cmds) >= 3 /\ cmds[2] = CmdSed) => cmds[3] = CmdRestart
        /\ (Len(cmds) >= 2 /\ cmds[2] # CmdSed) =>
              /\ cmds[2] = CmdDumpXml
              /\ \A i \in 1..Len(cmds) : cmds[i] = CmdRestart => i = Len(cmds) /\ i > 2

\* C22: in configure(), the sed patch of qemu.conf is issued and libvirtd is
\* restarted by _ensure_run_as_root exactly when the file read does not show
\* user = "root" at the start of a line; when it does, the file is left as it
\* is and the step issues no command
C22_PatchIffUserUnset ==
    /\ []C22_Step
    /\ [][pc = "root_probe" =>
            /\ (pc' = "root_sed") = ~UserIsRoot
            /\ (pc' = "cfg_dumpxml") = UserIsRoot
            /\ cmds' = cmds /\ qemuConf' = qemuConf]_vars
    /\ [][pc = "root_sed" => (pc' = "root_restart" /\ cmds' = Append(cmds, CmdSed))]_vars
    /\ [][pc = "root_restart" => cmds' = Append(cmds, CmdRestart)]_vars
    /\ [][(InConfigure /\ pc # "root_sed") => qemuConf' = qemuConf]_vars

\* the user is root and the group is not: nothing is patched
C22_Witness ==
    /\ InConfigure
    /\ qemuConf = [user |-> "root", group |-> "commented"]
    /\ Issued(CmdDumpXml)
    /\ ~Issued(CmdSed)
    /\ cmds[1] = CmdEnable
    /\ cmds[2] = CmdDumpXml

-----------------------------------------------------------------------------
(* C23 *)

\* the j-th resolved host entry of the i-th cluster as the input gave it: an
\* input entry, or the name alone for a synthesized one
GivenHost(i, j) ==
    IF j <= Len(InputHosts(i)) THEN InputHosts(i)[j]
    ELSE [name |-> ResolvedHosts(i)[j]["name"]]

\* the value the claim gives a host entry's key when the input leaves it out
ClaimedHostDefault(i, k) ==
    IF k = "network_api_port" THEN Clusters(fullConfig)[i]["network_api_port"]
    ELSE IF k = "username" THEN PyStr("core")
    ELSE IF k = "password" THEN PyNone
    ELSE PyBool("True")

\* C23: after resolution every host entry, given or synthesized, has
\* network_api_port, username, password and pre_installed; a key the input left
\* out holds the cluster's network_api_port, "core", None and the boolean True
C23_HostDefaults ==
    Resolved =>
        \A i \in 1..Len(Clusters(fullConfig)) :
            \A j \in 1..Len(ResolvedHosts(i)) :
                \A k \in {"network_api_port", "username", "password", "pre_installed"} :
                    /\ k \in DOMAIN ResolvedHosts(i)[j]
                    /\ k \notin DOMAIN GivenHost(i, j) =>
                          ResolvedHosts(i)[j][k] = ClaimedHostDefault(i, k)

-----------------------------------------------------------------------------
(* C24 *)

\* the static leases of the other names, in their order
WithoutName(table, name) == SelectSeq(table, LAMBDA h : h.name # name)

\* C24: when setup_dhcp_entry exits on an active lease for a node that had a
\* static lease when the call began, the delete of that static lease was issued
\* before the active leases were read and has taken effect: the static leases
\* are the ones of the call's start without the node's, and no add was issued
C24_DeleteBeforeAbort ==
    (LeaseAbort /\ NameIn(hosts0, op.arg.name)) =>
        /\ ~NameIn(net.hosts, op.arg.name)
        /\ net.hosts = WithoutName(hosts0, op.arg.name)
        /\ net.hosts # hosts0
        /\ cmds = <<CmdDumpXml, CmdHostDelete(op.arg.name), CmdLeases>>

C24_Witness ==
    /\ LeaseAbort
    /\ op.arg.name = "worker-2"
    /\ leases = <<"worker-2">>
    /\ NameIn(hosts0, "worker-2")
    /\ net.hosts = <<>>

-----------------------------------------------------------------------------
(* C25 *)

\* the command issued last by configure() failed
FailedLast(c) == InConfigure /\ Len(cmds) > 0 /\ LastCmd = c /\ last.rc # 0

LinkDown == CmdLinkDown(op.arg.api_network)
LinkUp == CmdLinkUp(op.arg.api_network)

C25_Failures ==
    /\ FailedLast(CmdDefine) =>
          /\ pc = "fatal"
          /\ ~Issued(LinkDown) /\ ~Issued(CmdStart) /\ ~Issued(LinkUp)
    /\ FailedLast(CmdStart) =>
          /\ pc = "fatal"
          /\ Issued(LinkDown) /\ Before(LinkDown, CmdStart)
          /\ ~Issued(LinkUp)
    /\ (InConfigure /\ Len(cmds) > 0 /\ LastCmd = LinkDown) => pc = "es_start"
    /\ (InConfigure /\ Issued(LinkUp)) => Issued(CmdStart) /\ Before(CmdStart, LinkUp)

\* C25: in the recreation, a failed net-define ends configure() with no ip link
\* set down, no net-start and no ip link set up issued; a failed net-start ends
\* it after the ip link set down and with no ip link set up issued; and after
\* the ip link set down, failed or not, net-start is the command issued next
C25_DefineStartFailures ==
    /\ []C25_Failures
    /\ [][pc = "es_down" => (pc' = "es_start" /\ cmds' = Append(cmds, LinkDown))]_vars
    /\ [][pc = "es_start" => cmds' = Append(cmds, CmdStart)]_vars

\* net-start fails right after the ip link set down
C25_Witness ==
    /\ FailedLast(CmdStart)
    /\ pc = "fatal"
    /\ Len(cmds) >= 2
    /\ cmds[Len(cmds) - 1] = LinkDown
    /\ ~Issued(LinkUp)

-----------------------------------------------------------------------------
(* C26 *)

\* configure() has recreated the network: net-define and net-start succeeded
Recreated == InConfigure /\ (pc = "es_up" \/ Issued(LinkUp))

\* the text of a range update
IsRangeUpdate(c) == Contains(c, "ip-dhcp-range")

\* the network the descriptor of the host defines, started
FreshNet ==
    /\ net.persistent /\ net.active
    /\ net.stp = "off"
    /\ net.hosts = <<>>
    /\ net.ip = (IF hostname = "localhost" THEN "192.168.122.1" ELSE "192.168.123.250")
    /\ net.ranges = (IF hostname = "localhost"
                     THEN <<[start |-> NewStart, end |-> RangeEnd]>> ELSE <<>>)

C26_AfterRecreation ==
    /\ Recreated =>
          /\ FreshNet
          /\ \A i \in 1..Len(cmds) : ~IsRangeUpdate(cmds[i])
          /\ (Issued(LinkUp) /\ LastCmd = CmdDumpXml) =>
                /\ ~Contains(last.out, "range start='192.168.122.2'")
                /\ pc = "cfg_restart"
          /\ op.status = "ok" =>
                /\ Len(cmds) >= 4
                /\ SubSeq(cmds, Len(cmds) - 3, Len(cmds)) = <<CmdStart, LinkUp, CmdDumpXml, CmdRestart>>
    /\ (InConfigure /\ pc \in {"limit_dumpxml", "cfg_restart"}) => Recreated
    /\ InConfigure => pc \notin {"limit_delete", "limit_add"}
    /\ InConfigure =>
          \A i \in 1..Len(cmds), j \in 1..Len(cmds) :
              (cmds[i] = CmdDestroy /\ cmds[j] = CmdRestart /\ i < j) =>
                  \E k \in (i + 1)..(j - 1) : cmds[k] = CmdStart

\* C26: once configure() has recreated the network, with net-define and
\* net-start succeeding, the limit_dhcp_range that follows reads a definition
\* without a range starting at 192.168.122.2 and issues no range update; the
\* dynamic range is 192.168.122.129-192.168.122.254 on localhost and absent on
\* another host; the restart that ends configure() comes after net-start
C26_NoRangeUpdate ==
    /\ []C26_AfterRecreation
    /\ [][(InConfigure /\ pc = "limit_dumpxml") =>
             (pc' = "cfg_restart" /\ cmds' = Append(cmds, CmdDumpXml) /\ net' = net)]_vars
    /\ [][(InConfigure /\ pc = "cfg_restart") =>
             (cmds' = Append(cmds, CmdRestart) /\ net' = net)]_vars

\* the stale definition of a localhost was replaced and configure() returned
C26_Witness ==
    /\ Recreated
    /\ op.status = "ok"
    /\ hostname = "localhost"
    /\ NameIn(hosts0, "worker-2")
    /\ net.ranges = <<[start |-> NewStart, end |-> RangeEnd]>>
    /\ LastCmd = CmdRestart

\* on another host the recreated network has no dynamic range
C26_WitnessRemote ==
    /\ Recreated
    /\ op.status = "ok"
    /\ hostname = "remotehost"
    /\ net.ranges = <<>>
    /\ Issued(CmdDestroy)

=============================================================================
